---- MODULE Spec2Model ----
(***************************************************************************)
(* Repository layer of mcp-brain: the task queue (file backend and SQLite  *)
(* backend) and the knowledge store (file backend and SQLite backend).     *)
(* Each repository call is a process position (pc) of a caller; storage    *)
(* steps of concurrent callers interleave.                                 *)
(***************************************************************************)
EXTENDS Integers, Sequences, FiniteSets, TLC

\* ---------------------------------------------------------------- bounds
Workers == {"w1", "w2"}
Scopes == {"A", "B"}
GlobalScope == "global"
AllScopes == Scopes \cup {GlobalScope}
MaxBatch == 2
MaxTasks == 3
MaxClock == 1
MaxRestarts == 1

VARIABLES
    backend,      \* which task backend the process was constructed with
    tasks,        \* SQLite: committed rows of table tasks
    seq,          \* SQLite: sqlite_sequence value of table tasks (AUTOINCREMENT)
    shared,       \* SQLite: connections holding a SHARED lock
    reserved,     \* SQLite: connections holding the RESERVED lock
    fileTasks,    \* file backend: TasksFile.Tasks on disk
    fileNextID,   \* file backend: TasksFile.NextID on disk
    mutex,        \* file backend: holder of FileRepository.mutex ("" when free)
    now,          \* clock read by CURRENT_TIMESTAMP / time.Now()
    pc,           \* position of each caller inside its repository call
    tx,           \* locals of each caller's call in flight
    added,        \* history: tasks in the order they were committed
    delivered,    \* history: per requested scope, the tasks GetTask returned, in order
    cleared,      \* history: uids removed by a clear operation
    epoch,        \* number of close/reopen cycles of the store
    ev,           \* the last call step that completed, with its outcome
    knowledge,    \* SQLite: rows of table knowledge (one project)
    files,        \* file backend: files and directories below baseDir
    kv,           \* the last knowledge call, with its outcome
    built,        \* a tree built by insertPathIntoStructure: its entries and results
    kpc,          \* SQLite: each caller's Write in flight, statement by statement
    templates,    \* template store: rows of task_templates / the YAML files
    tclock,       \* the instant time.Now() returns
    tpc,          \* position of each caller inside its template handler
    ttx,          \* locals of each caller's template handler
    tv,           \* the last template call, with its outcome
    subst         \* a resolveTemplate call: its input and its result

vars == <<backend, tasks, seq, shared, reserved, fileTasks, fileNextID, mutex,
          now, pc, tx, added, delivered, cleared, epoch, ev, knowledge, files, kv,
          built, kpc, templates, tclock, tpc, ttx, tv, subst>>

sqlVars == <<tasks, seq, shared, reserved>>
fileVars == <<fileTasks, fileNextID, mutex>>
histVars == <<added, delivered, cleared>>
knowVars == <<knowledge, files, kv, built, kpc>>
tmplVars == <<templates, tclock, tpc, ttx, tv, subst>>
taskVars == <<sqlVars, fileVars, now, pc, tx, histVars, epoch, ev>>

\* ---------------------------------------------------------------- helpers
\* the contents of an AddTasks call: distinct neighbours, so that order shows
Content(i) == IF i % 2 = 1 THEN "x" ELSE "y"

Batches == {[i \in 1..n |-> Content(i)] : n \in 0..MaxBatch}

Range(s) == {s[i] : i \in 1..Len(s)}

IsPrefix(s, t) == Len(s) <= Len(t) /\ \A i \in 1..Len(s) : s[i] = t[i]

\* contracts.Task, with the history tag uid (position in added; 0 before commit)
\* and batch (uid of the first task of its AddTasks call)
Task(id, scope, content, created) ==
    [id |-> id, scope |-> scope, content |-> content, created |-> created,
     uid |-> 0, batch |-> 0]

NoTx == [op |-> "none", scope |-> "", contents |-> <<>>, ins |-> <<>>,
         sel |-> <<>>, got |-> <<>>, file |-> [Tasks |-> <<>>, NextID |-> 0]]

\* the outcome of a call that returned in the last step
\* (op, scope, arg: the call; kind, err, tasks: what it returned)
Event(op, scope, arg, kind, err, ts) ==
    [op |-> op, scope |-> scope, arg |-> arg, kind |-> kind, err |-> err, tasks |-> ts]

\* ev after a step in which no call returned
NoEvent == Event("none", "", <<>>, "", "", <<>>)

\* the outcome of a knowledge call
\* (op, path, content: the call; kind, err, value, list: what it returned)
KEvent(op, path, content, kind, err, value, list) ==
    [op |-> op, path |-> path, content |-> content, kind |-> kind, err |-> err,
     value |-> value, list |-> list]

NoKEvent == KEvent("none", <<>>, "", "", "", "", {})

\* locals of a Write: the directories still to insert, those it inserted
NoKtx == [at |-> "idle", path |-> <<>>, content |-> "", dirs |-> <<>>, made |-> {}]

NoBuilt == [entries |-> <<>>, once |-> {}, twice |-> {}, done |-> FALSE]

\* tasks still owed by calls in flight, so that the history stays bounded
RECURSIVE Owed(_)
Owed(ws) ==
    IF ws = {} THEN 0
    ELSE LET w == CHOOSE x \in ws : TRUE
         IN  (IF tx[w].op = "add" /\ pc[w] # "retrieve" THEN Len(tx[w].contents) ELSE 0)
             + Owed(ws \ {w})

InFlight == Owed(Workers)

\* --- template data
\* A task string or a parameter value is a sequence of tokens: "$", "{" and
\* "}" are those characters, every other token is a piece of text without
\* them.  <<>> is "".  A template id is a sequence too: <<>> is "".
\* "${" name "}"
Placeholder(name) == <<"$", "{">> \o name \o <<"}">>

\* contracts.Parameter
Parameter(type, required, default, values) ==
    [type |-> type, required |-> required, default |-> default, values |-> values]

\* contracts.TaskTemplate (the fields the repositories act on)
TaskTemplate(id, name, description, parameters, tsks, createdAt, updatedAt) ==
    [id |-> id, name |-> name, description |-> description, parameters |-> parameters,
     tasks |-> tsks, created_at |-> createdAt, updated_at |-> updatedAt]

\* a map[string]T: a function on a set of names
EmptyMap == [n \in {} |-> <<>>]

NoTemplate == TaskTemplate(<<>>, "", "", EmptyMap, <<>>, 0, 0)

\* locals of a template handler
NoTtx == [op |-> "none", id |-> <<>>, template |-> NoTemplate, parameters |-> EmptyMap,
          scope |-> "", resolved |-> <<>>]

\* the outcome of a template call
\* (op, id, template, parameters: the call; kind, err: its result;
\*  value: the template it returned; tasks: the task strings it queued)
TEvent(op, id, template, parameters, kind, err, value, tsks) ==
    [op |-> op, id |-> id, template |-> template, parameters |-> parameters,
     kind |-> kind, err |-> err, value |-> value, tasks |-> tsks]

NoTEvent == TEvent("none", <<>>, NoTemplate, EmptyMap, "", "", NoTemplate, <<>>)

NoSubst == [template |-> <<>>, parameters |-> EmptyMap, result |-> <<>>, pieces |-> <<>>]

Tagged(rows, base) ==
    [i \in 1..Len(rows) |-> [rows[i] EXCEPT !.uid = base + i, !.batch = base + 1]]

\* the histories keep what the claims compare: identity, scope, content, tags
Forget(t) == [t EXCEPT !.created = 0]

Hist(rows) == [i \in 1..Len(rows) |-> Forget(rows[i])]

Init ==
    /\ backend \in {"file", "sqlite"}
    /\ tasks = {}
    /\ seq = 0
    /\ shared = {}
    /\ reserved = {}
    /\ fileTasks = <<>>
    /\ fileNextID = 1
    /\ mutex = ""
    /\ now = 0
    /\ pc = [w \in Workers |-> "idle"]
    /\ tx = [w \in Workers |-> NoTx]
    /\ added = <<>>
    /\ delivered = [s \in AllScopes |-> <<>>]
    /\ cleared = {}
    /\ epoch = 0
    /\ ev = NoEvent
    /\ knowledge = {}
    /\ files = {}
    /\ kv = NoKEvent
    /\ built = NoBuilt
    /\ kpc = [w \in Workers |-> NoKtx]
    /\ templates = {}
    /\ tclock = 0
    /\ tpc = [w \in Workers |-> "idle"]
    /\ ttx = [w \in Workers |-> NoTtx]
    /\ tv = NoTEvent
    /\ subst = NoSubst

\* seeded fault: empty input rejected
EmptyAddResultError(s) == Event("add", s, <<>>, "error", "empty", <<>>)

\* if len(contents) == 0 { return []*contracts.Task{}, nil }
EmptyAddResult(s) == Event("add", s, <<>>, "ok", "", <<>>)

Return(w, e) ==
    /\ pc' = [pc EXCEPT ![w] = "idle"]
    /\ tx' = [tx EXCEPT ![w] = NoTx]
    /\ ev' = e

\* ------------------------------------------------ task queue, file backend
\* seeded fault: AddTasks and GetTask without r.mutex.Lock()
MutexFreeUnlocked(w) == TRUE

\* sync.RWMutex: Lock() proceeds only when nobody holds the mutex
MutexFree(w) == mutex = ""

\* the loop of AddTasks over contents: one task per content, ids from NextID
NewTasks(nextID, contents, t) ==
    [i \in 1..Len(contents) |-> Task(nextID + i - 1, GlobalScope, contents[i], t)]

FileAddTasks(file, newTasks) ==
    [Tasks |-> file.Tasks \o newTasks, NextID |-> file.NextID + Len(newTasks)]

\* seeded fault: the task is returned and the whole list is saved again
FileGetTaskKeep(file) == [task |-> Head(file.Tasks), file |-> file]

\* task := Tasks[0]; Tasks = Tasks[1:]
FileGetTask(file) ==
    [task |-> Head(file.Tasks), file |-> [file EXCEPT !.Tasks = Tail(file.Tasks)]]

\* the TasksFile that ClearAllTasks saves
FileClearAll == [Tasks |-> <<>>, NextID |-> 1]

\* seeded fault: the empty list reported as an error
FileEmptyResultError == Event("get", GlobalScope, <<>>, "error", "no pending tasks", <<>>)

\* what GetTask returns when the loaded file holds no task: (nil, nil)
FileEmptyResult == Event("get", GlobalScope, <<>>, "empty", "", <<>>)

FileCallAdd(w, contents) ==
    /\ backend = "file" /\ pc[w] = "idle"
    /\ IF contents = <<>>
       THEN /\ ev' = EmptyAddResult(GlobalScope)
            /\ UNCHANGED <<pc, tx>>
       ELSE /\ Len(added) + InFlight + Len(contents) <= MaxTasks
            /\ pc' = [pc EXCEPT ![w] = "lock"]
            /\ tx' = [tx EXCEPT ![w] = [NoTx EXCEPT !.op = "add", !.scope = GlobalScope,
                                                    !.contents = contents]]
            /\ ev' = NoEvent
    /\ UNCHANGED <<backend, knowVars, tmplVars, sqlVars, fileVars, now, histVars, epoch>>

FileCallGet(w) ==
    /\ backend = "file" /\ pc[w] = "idle"
    /\ pc' = [pc EXCEPT ![w] = "lock"]
    /\ tx' = [tx EXCEPT ![w] = [NoTx EXCEPT !.op = "get", !.scope = GlobalScope]]
    /\ ev' = NoEvent
    /\ UNCHANGED <<backend, knowVars, tmplVars, sqlVars, fileVars, now, histVars, epoch>>

FileCallClear(w) ==
    /\ backend = "file" /\ pc[w] = "idle"
    /\ pc' = [pc EXCEPT ![w] = "lock"]
    /\ tx' = [tx EXCEPT ![w] = [NoTx EXCEPT !.op = "clear", !.scope = GlobalScope]]
    /\ ev' = NoEvent
    /\ UNCHANGED <<backend, knowVars, tmplVars, sqlVars, fileVars, now, histVars, epoch>>

FileLock(w) ==
    /\ pc[w] = "lock"
    /\ MutexFree(w)
    /\ mutex' = w
    /\ pc' = [pc EXCEPT ![w] = IF tx[w].op = "clear" THEN "clearsave" ELSE "load"]
    /\ ev' = NoEvent
    /\ UNCHANGED <<backend, knowVars, tmplVars, sqlVars, fileTasks, fileNextID, now, tx, histVars, epoch>>

\* loadTasksFile, and GetTask's return on an empty list
FileLoad(w) ==
    /\ pc[w] = "load"
    /\ IF tx[w].op = "get" /\ fileTasks = <<>>
       THEN /\ Return(w, FileEmptyResult)
            /\ mutex' = ""
       ELSE /\ tx' = [tx EXCEPT ![w].file = [Tasks |-> fileTasks, NextID |-> fileNextID]]
            /\ pc' = [pc EXCEPT ![w] = "save"]
            /\ ev' = NoEvent
            /\ UNCHANGED <<mutex>>
    /\ UNCHANGED <<backend, knowVars, tmplVars, sqlVars, fileTasks, fileNextID, now, histVars, epoch>>

\* AddTasks: the loop over contents, saveTasksFile, Unlock, return newTasks
FileSaveAdd(w) ==
    /\ pc[w] = "save" /\ tx[w].op = "add"
    /\ mutex' = ""
    /\ LET new == Tagged(NewTasks(tx[w].file.NextID, tx[w].contents, now), Len(added))
           f == FileAddTasks(tx[w].file, new)
       IN  /\ fileTasks' = f.Tasks
           /\ fileNextID' = f.NextID
           /\ added' = added \o Hist(new)
           /\ Return(w, Event("add", GlobalScope, tx[w].contents, "ok", "", new))
    /\ UNCHANGED <<backend, knowVars, tmplVars, sqlVars, now, delivered, cleared, epoch>>

\* GetTask: take the first task, saveTasksFile, Unlock, return it
FileSaveGet(w) ==
    /\ pc[w] = "save" /\ tx[w].op = "get"
    /\ mutex' = ""
    /\ LET g == FileGetTask(tx[w].file)
       IN  /\ fileTasks' = g.file.Tasks
           /\ fileNextID' = g.file.NextID
           /\ delivered' = [delivered EXCEPT ![GlobalScope] = Append(@, Forget(g.task))]
           /\ Return(w, Event("get", GlobalScope, <<>>, "ok", "", <<g.task>>))
    /\ UNCHANGED <<backend, knowVars, tmplVars, sqlVars, now, added, cleared, epoch>>

\* ClearAllTasks: save an empty TasksFile, Unlock
FileSaveClear(w) ==
    /\ pc[w] = "clearsave"
    /\ mutex' = ""
    /\ fileTasks' = FileClearAll.Tasks
    /\ fileNextID' = FileClearAll.NextID
    /\ cleared' = cleared \cup {t.uid : t \in Range(fileTasks)}
    /\ Return(w, Event("clear", GlobalScope, <<>>, "ok", "", <<>>))
    /\ UNCHANGED <<backend, knowVars, tmplVars, sqlVars, now, added, delivered, epoch>>

\* ---------------------------------------------- task queue, SQLite backend
\* A transaction works on its own connection.  Its first write takes the
\* RESERVED lock, which one connection holds at a time; its writes stay
\* private until COMMIT, which needs every other connection's SHARED lock gone.
\* db.Begin() and tx.Prepare() touch no shared state, so they are part of the
\* step that runs the call's first statement.
CanReserve(w) == reserved \subseteq {w}

\* seeded fault: GetTask's SELECT and DELETE outside a transaction
CanCommitUnisolated(w) == TRUE

CanCommit(w) == shared \subseteq {w}

\* seeded fault: the SELECT finds no row
OldestTaskNone(rows, s) == <<>>

\* seeded fault: ORDER BY created_at DESC, id DESC
OldestTaskNewestFirst(rows, s) ==
    LET cands == {r \in rows : r.scope = s}
    IN  IF cands = {} THEN <<>>
        ELSE <<CHOOSE r \in cands : \A q \in cands :
                  \/ r.created > q.created
                  \/ r.created = q.created /\ r.id >= q.id>>

\* seeded fault: the WHERE chat_session_id = ? clause left out
OldestTaskAnyScope(rows, s) ==
    IF rows = {} THEN <<>>
    ELSE <<CHOOSE r \in rows : \A q \in rows :
              \/ r.created < q.created
              \/ r.created = q.created /\ r.id <= q.id>>

\* SELECT ... WHERE chat_session_id = ? ORDER BY created_at ASC, id ASC LIMIT 1
OldestTask(rows, s) ==
    LET cands == {r \in rows : r.scope = s}
    IN  IF cands = {} THEN <<>>
        ELSE <<CHOOSE r \in cands : \A q \in cands :
                  \/ r.created < q.created
                  \/ r.created = q.created /\ r.id <= q.id>>

\* id INTEGER PRIMARY KEY AUTOINCREMENT: one more than the largest id ever used
NextRowID(w) == seq + Len(tx[w].ins) + 1

\* seeded fault: sql.ErrNoRows answered with (nil, nil)
NoRowsResultNil(s) == Event("get", s, <<>>, "empty", "", <<>>)

\* sql.ErrNoRows: fmt.Errorf("no pending tasks found for chat session: %s")
NoRowsResult(s) == Event("get", s, <<>>, "error", "no pending tasks", <<>>)

\* the deferred tx.Rollback() of a failed call: its locks and writes are dropped
Abort(w, e) ==
    /\ shared' = shared \ {w}
    /\ reserved' = reserved \ {w}
    /\ Return(w, e)
    /\ UNCHANGED <<tasks, seq>>

\* AddTasks up to its first stmt.Exec: empty input returns at once
SqlAddTasks(w, s, contents) ==
    /\ backend = "sqlite" /\ pc[w] = "idle"
    /\ IF contents = <<>>
       THEN /\ ev' = EmptyAddResult(s)
            /\ UNCHANGED <<pc, tx, shared, reserved>>
       ELSE /\ Len(added) + InFlight + Len(contents) <= MaxTasks
            /\ CanReserve(w)
            /\ tx' = [tx EXCEPT ![w] = [NoTx EXCEPT !.op = "add", !.scope = s,
                                            !.contents = contents,
                                            !.ins = <<Task(seq + 1, s, contents[1], now)>>]]
            /\ pc' = [pc EXCEPT ![w] = IF Len(contents) = 1 THEN "commit" ELSE "insert"]
            /\ shared' = shared \cup {w}
            /\ reserved' = reserved \cup {w}
            /\ ev' = NoEvent
    /\ UNCHANGED <<backend, knowVars, tmplVars, tasks, seq, fileVars, now, histVars, epoch>>

\* SQLITE_BUSY on the first insert: "failed to add task"; the transaction has
\* taken no lock and written no row
SqlAddTasksBusy(w, s, contents) ==
    /\ backend = "sqlite" /\ pc[w] = "idle"
    /\ contents # <<>>
    /\ Len(added) + InFlight + Len(contents) <= MaxTasks
    /\ ~CanReserve(w)
    /\ ev' = Event("add", s, contents, "error", "busy", <<>>)
    /\ UNCHANGED <<backend, knowVars, tmplVars, sqlVars, fileVars, now, pc, tx, histVars, epoch>>

\* stmt.Exec(chatSessionID, content) and LastInsertId for the next content
SqlInsert(w) ==
    /\ pc[w] = "insert"
    /\ LET k == Len(tx[w].ins) + 1
           row == Task(NextRowID(w), tx[w].scope, tx[w].contents[k], now)
       IN  /\ tx' = [tx EXCEPT ![w].ins = Append(@, row)]
           /\ pc' = [pc EXCEPT ![w] = IF k = Len(tx[w].contents) THEN "commit" ELSE "insert"]
    /\ ev' = NoEvent
    /\ UNCHANGED <<backend, knowVars, tmplVars, sqlVars, fileVars, now, histVars, epoch>>

\* tx.Commit() of AddTasks
SqlCommitAdd(w) ==
    /\ pc[w] = "commit" /\ tx[w].op = "add"
    /\ CanCommit(w)
    /\ LET rows == Tagged(tx[w].ins, Len(added))
       IN  /\ tasks' = tasks \cup Range(rows)
           /\ seq' = seq + Len(rows)
           /\ added' = added \o Hist(rows)
           /\ tx' = [tx EXCEPT ![w].ins = rows]
    /\ shared' = shared \ {w}
    /\ reserved' = reserved \ {w}
    /\ pc' = [pc EXCEPT ![w] = "retrieve"]
    /\ ev' = NoEvent
    /\ UNCHANGED <<backend, knowVars, tmplVars, fileVars, now, delivered, cleared, epoch>>

\* SQLITE_BUSY on COMMIT: "failed to commit transaction", rolled back
SqlCommitBusy(w) ==
    /\ pc[w] = "commit"
    /\ ~CanCommit(w)
    /\ Abort(w, Event(tx[w].op, tx[w].scope, tx[w].contents, "error", "busy", <<>>))
    /\ UNCHANGED <<backend, knowVars, tmplVars, fileVars, now, histVars, epoch>>

\* getTaskByID for the next created id, outside the transaction
SqlRetrieve(w) ==
    /\ pc[w] = "retrieve"
    /\ LET k == Len(tx[w].got) + 1
           found == {r \in tasks : r.id = tx[w].ins[k].id}
       IN  IF found = {}
           THEN Return(w, Event("add", tx[w].scope, tx[w].contents, "error", "retrieve", <<>>))
           ELSE LET got == Append(tx[w].got, CHOOSE r \in found : TRUE)
                IN  IF k = Len(tx[w].ins)
                    THEN Return(w, Event("add", tx[w].scope, tx[w].contents, "ok", "", got))
                    ELSE /\ tx' = [tx EXCEPT ![w].got = got]
                         /\ ev' = NoEvent
                         /\ UNCHANGED <<pc>>
    /\ UNCHANGED <<backend, knowVars, tmplVars, sqlVars, fileVars, now, histVars, epoch>>

\* --- failures that are not SQLITE_BUSY (I/O error, disk full, closed handle)
\* the connection of a transaction that was neither committed nor rolled back
LeakedTx == "leaked"

\* db.Begin() fails: "failed to begin transaction", there is no transaction
SqlBeginFail(w, op, s) ==
    /\ backend = "sqlite" /\ pc[w] = "idle"
    /\ ev' = Event(op, s, <<>>, "error", "begin", <<>>)
    /\ UNCHANGED <<backend, knowVars, tmplVars, sqlVars, fileVars, now, pc, tx, histVars, epoch>>

\* tx.Prepare() fails: err is the function's err, the deferred Rollback runs
SqlPrepareFail(w, s, contents) ==
    /\ backend = "sqlite" /\ pc[w] = "idle"
    /\ contents # <<>>
    /\ ev' = Event("add", s, contents, "error", "prepare", <<>>)
    /\ UNCHANGED <<backend, knowVars, tmplVars, sqlVars, fileVars, now, pc, tx, histVars, epoch>>

\* stmt.Exec fails after an insert of the batch went through: the err of
\* "result, err := stmt.Exec(...)" is local to the loop body, the deferred
\* function tests the function's err (nil since Prepare) and does not roll
\* back; the transaction stays open on its connection with its locks
SqlInsertFail(w) ==
    /\ pc[w] = "insert"
    /\ shared' = (shared \ {w}) \cup {LeakedTx}
    /\ reserved' = (reserved \ {w}) \cup {LeakedTx}
    /\ Return(w, Event("add", tx[w].scope, tx[w].contents, "error", "insert", <<>>))
    /\ UNCHANGED <<backend, knowVars, tmplVars, tasks, seq, fileVars, now, histVars, epoch>>

\* the DELETE fails: err is the function's err, the deferred Rollback runs
SqlDeleteFail(w) ==
    /\ pc[w] = "delete"
    /\ Abort(w, Event("get", tx[w].scope, <<>>, "error", "delete", <<>>))
    /\ UNCHANGED <<backend, knowVars, tmplVars, fileVars, now, histVars, epoch>>

\* tx.Commit() fails: err is the function's err, the deferred Rollback runs
SqlCommitFail(w) ==
    /\ pc[w] = "commit"
    /\ Abort(w, Event(tx[w].op, tx[w].scope, tx[w].contents, "error", "commit", <<>>))
    /\ UNCHANGED <<backend, knowVars, tmplVars, fileVars, now, histVars, epoch>>

\* GetTask up to tx.QueryRow(query, chatSessionID).Scan(...)
SqlGetTask(w, s) ==
    /\ backend = "sqlite" /\ pc[w] = "idle"
    /\ LET sel == OldestTask(tasks, s)
       IN  IF sel = <<>>
           THEN /\ ev' = NoRowsResult(s)
                /\ UNCHANGED <<pc, tx, shared>>
           ELSE /\ tx' = [tx EXCEPT ![w] = [NoTx EXCEPT !.op = "get", !.scope = s,
                                                        !.sel = sel]]
                /\ pc' = [pc EXCEPT ![w] = "delete"]
                /\ shared' = shared \cup {w}
                /\ ev' = NoEvent
    /\ UNCHANGED <<backend, knowVars, tmplVars, tasks, seq, reserved, fileVars, now, histVars, epoch>>

\* tx.Exec(DELETE FROM tasks WHERE id = ?)
SqlDelete(w) ==
    /\ pc[w] = "delete"
    /\ CanReserve(w)
    /\ reserved' = reserved \cup {w}
    /\ pc' = [pc EXCEPT ![w] = "commit"]
    /\ ev' = NoEvent
    /\ UNCHANGED <<backend, knowVars, tmplVars, tasks, seq, shared, fileVars, now, tx, histVars, epoch>>

\* SQLITE_BUSY on the delete: "failed to delete task", rolled back
SqlDeleteBusy(w) ==
    /\ pc[w] = "delete"
    /\ ~CanReserve(w)
    /\ Abort(w, Event("get", tx[w].scope, <<>>, "error", "busy", <<>>))
    /\ UNCHANGED <<backend, knowVars, tmplVars, fileVars, now, histVars, epoch>>

\* tx.Commit() of GetTask and return &task
SqlCommitGet(w) ==
    /\ pc[w] = "commit" /\ tx[w].op = "get"
    /\ CanCommit(w)
    /\ LET t == tx[w].sel[1]
       IN  /\ tasks' = {r \in tasks : r.id # t.id}
           /\ delivered' = [delivered EXCEPT ![tx[w].scope] = Append(@, Forget(t))]
           /\ Return(w, Event("get", tx[w].scope, <<>>, "ok", "", <<t>>))
    /\ shared' = shared \ {w}
    /\ reserved' = reserved \ {w}
    /\ UNCHANGED <<backend, knowVars, tmplVars, seq, fileVars, now, added, cleared, epoch>>

\* ClearTasksForSession: one autocommitted DELETE
SqlClear(w, s) ==
    /\ backend = "sqlite" /\ pc[w] = "idle"
    /\ CanReserve(w) /\ CanCommit(w)
    /\ tasks' = {r \in tasks : r.scope # s}
    /\ cleared' = cleared \cup {r.uid : r \in {q \in tasks : q.scope = s}}
    /\ ev' = Event("clear", s, <<>>, "ok", "", <<>>)
    /\ UNCHANGED <<backend, knowVars, tmplVars, seq, shared, reserved, fileVars, now, pc, tx, added,
                   delivered, epoch>>

\* ------------------------------------------------------- knowledge store
\* A path is a sequence of segments; a segment is a stem and its extension, so
\* that strings.HasSuffix(path, ".md") is a test on the last segment.
Seg(stem, ext) == [stem |-> stem, ext |-> ext]

\* the paths that calls are made with: a, a.md, a/b.md, a/c/d.md, a.md/b.md
KPaths ==
    {<<Seg("a", "")>>,
     <<Seg("a", ".md")>>,
     <<Seg("a", ""), Seg("b", ".md")>>,
     <<Seg("a", ""), Seg("c", ""), Seg("d", ".md")>>,
     <<Seg("a", ".md"), Seg("b", ".md")>>}

KContents == {"x", "y"}

\* q lies below p: q starts with p followed by "/"
Under(p, q) == Len(q) > Len(p) /\ SubSeq(q, 1, Len(p)) = p

\* filepath.Dir(path) and its ancestors, the shortest first
Ancestors(p) == [k \in 1..(Len(p) - 1) |-> SubSeq(p, 1, k)]

\* if !strings.HasSuffix(normalizedPath, ".md") { normalizedPath += ".md" }
NormalizePath(p) ==
    IF p[Len(p)].ext = ".md" THEN p
    ELSE [p EXCEPT ![Len(p)] = Seg(p[Len(p)].stem, ".md")]

\* the segment "..", and the segments that filepath.Clean drops: "" (of a
\* leading "/" or of "//") and "."
DotDot == Seg("..", "")

Dropped == {Seg("", ""), Seg(".", "")}

\* filepath.Clean of a relative path, as filepath.Join and filepath.Dir apply
\* it: "x/.." goes, a leading ".." stays
RECURSIVE CleanOnto(_, _)
CleanOnto(done, rest) ==
    IF rest = <<>> THEN done
    ELSE IF Head(rest) \in Dropped THEN CleanOnto(done, Tail(rest))
    ELSE IF Head(rest) = DotDot /\ done # <<>> /\ done[Len(done)] # DotDot
    THEN CleanOnto(SubSeq(done, 1, Len(done) - 1), Tail(rest))
    ELSE CleanOnto(Append(done, Head(rest)), Tail(rest))

Clean(p) == CleanOnto(<<>>, p)

\* a cleaned path that leaves the directory it is joined to
Outside(p) == p # <<>> /\ p[1] = DotDot

\* the directories above the base directory: they exist
Above(p) == \A k \in 1..Len(p) : p[k] = DotDot

Row(path, isDirectory, content) ==
    [path |-> path, is_directory |-> isDirectory, content |-> content]

\* insertPathIntoStructure over every entry, parents first: the nodes of the
\* DirStructure, a node being a directory when the entry is one or when
\* entries lie below it
DirStructure(entries) ==
    LET nodes == UNION {{SubSeq(e.path, 1, k) : k \in 1..Len(e.path)} : e \in entries}
    IN  {[path |-> n,
          dir |-> \/ \E e \in entries : Under(n, e.path)
                  \/ \E e \in entries : e.path = n /\ e.is_directory] : n \in nodes}

\* A DirStructure in the making: one node per key, dir telling whether the key
\* maps to a non-nil DirStructure.  current[part] == nil holds for a key that
\* maps to nil and for a key that is absent.
IsNil(structure, p) == ~\E n \in structure : n.path = p /\ n.dir

\* current[part] = make(contracts.DirStructure), current[part] = nil
SetNode(structure, p, dir) ==
    {n \in structure : n.path # p /\ ~Under(p, n.path)} \cup {[path |-> p, dir |-> dir]}

\* seeded fault: a directory marker always makes a new DirStructure
RECURSIVE InsertFromClobber(_, _, _, _)
InsertFromClobber(structure, path, isDirectory, i) ==
    LET part == SubSeq(path, 1, i)
    IN  IF i = Len(path)
        THEN SetNode(structure, part, isDirectory)
        ELSE InsertFromClobber(IF IsNil(structure, part) THEN SetNode(structure, part, TRUE)
                               ELSE structure,
                               path, isDirectory, i + 1)

insertPathClobber(structure, path, isDirectory) ==
    InsertFromClobber(structure, path, isDirectory, 1)

\* the loop of insertPathIntoStructure from part i on
RECURSIVE InsertFrom(_, _, _, _)
InsertFrom(structure, path, isDirectory, i) ==
    LET part == SubSeq(path, 1, i)
    IN  IF i = Len(path)
        THEN IF isDirectory
             THEN IF IsNil(structure, part) THEN SetNode(structure, part, TRUE) ELSE structure
             ELSE SetNode(structure, part, FALSE)
        ELSE InsertFrom(IF IsNil(structure, part) THEN SetNode(structure, part, TRUE)
                        ELSE structure,
                        path, isDirectory, i + 1)

insertPathIntoStructure(structure, path, isDirectory) ==
    InsertFrom(structure, path, isDirectory, 1)

\* insertPathIntoStructure for every entry, in the order of the entries
RECURSIVE InsertAll(_, _)
InsertAll(structure, entries) ==
    IF entries = <<>> THEN structure
    ELSE InsertAll(insertPathIntoStructure(structure, Head(entries).path,
                                           Head(entries).is_directory),
                   Tail(entries))

\* --- SQLite backend
RowAt(rows, p) == {r \in rows : r.path = p}

\* INSERT ... is_directory = 1 ... ON CONFLICT(project, path) DO NOTHING,
\* for every ancestor of path
RECURSIVE InsertDirectories(_, _)
InsertDirectories(rows, dirs) ==
    IF dirs = <<>> THEN rows
    ELSE InsertDirectories(
             IF RowAt(rows, Head(dirs)) = {} THEN rows \cup {Row(Head(dirs), TRUE, "")}
             ELSE rows,
             Tail(dirs))

\* dir := filepath.Dir(path), then every prefix of dir
ParentDirectories(p) ==
    LET dir == Clean(SubSeq(p, 1, Len(p) - 1))
    IN  [k \in 1..Len(dir) |-> SubSeq(dir, 1, k)]

ensureParentDirectories(rows, p) == InsertDirectories(rows, ParentDirectories(p))

\* INSERT ... is_directory = 0 ... ON CONFLICT(project, path)
\* DO UPDATE SET content = excluded.content, updated_at = CURRENT_TIMESTAMP
Upsert(rows, p, c) ==
    IF RowAt(rows, p) = {} THEN rows \cup {Row(p, FALSE, c)}
    ELSE {IF r.path = p THEN [r EXCEPT !.content = c] ELSE r : r \in rows}

SqliteWrite(rows, p, c) == Upsert(ensureParentDirectories(rows, p), p, c)

\* SELECT content FROM knowledge WHERE project = ? AND path = ? AND is_directory = 0
SqliteRead(rows, p) ==
    LET found == {r \in RowAt(rows, p) : ~r.is_directory}
    IN  IF found = {} THEN [kind |-> "error", err |-> "not found", value |-> ""]
        ELSE [kind |-> "ok", err |-> "", value |-> (CHOOSE r \in found : TRUE).content]

\* the characters of a stem, for the stems that hold more than one
Chars(stem) ==
    CASE stem = "" -> <<>>
      [] stem = ".." -> <<".", ".">>
      [] stem = "a_" -> <<"a", "_">>
      [] stem = "ab" -> <<"a", "b">>
      [] stem = "AB" -> <<"A", "B">>
      [] OTHER -> <<stem>>

\* the path as the string that is stored and bound to the statement
RECURSIVE PathChars(_)
PathChars(p) ==
    IF p = <<>> THEN <<>>
    ELSE Chars(p[1].stem) \o (IF p[1].ext = ".md" THEN <<".", "m", "d">> ELSE <<>>)
             \o (IF Len(p) = 1 THEN <<>> ELSE <<"/">> \o PathChars(Tail(p)))

\* LIKE compares ASCII letters without regard to case
Fold(c) == CASE c = "A" -> "a" [] c = "B" -> "b" [] OTHER -> c

\* text LIKE pattern: % stands for any characters, _ for one character
RECURSIVE LikeMatch(_, _)
LikeMatch(pattern, text) ==
    IF pattern = <<>> THEN text = <<>>
    ELSE IF Head(pattern) = "%"
    THEN \E k \in 0..Len(text) : LikeMatch(Tail(pattern), SubSeq(text, k + 1, Len(text)))
    ELSE /\ text # <<>>
         /\ (Head(pattern) = "_" \/ Fold(Head(pattern)) = Fold(Head(text)))
         /\ LikeMatch(Tail(pattern), Tail(text))

\* path LIKE pathPrefix, pathPrefix := path + "/%"
Like(q, p) == LikeMatch(PathChars(p) \o <<"/", "%">>, PathChars(q))

\* the existence check, then
\* DELETE FROM knowledge WHERE project = ? AND (path = ? OR path LIKE ?)
SqliteDelete(rows, p) ==
    IF RowAt(rows, p) = {} THEN [kind |-> "error", err |-> "not found", rows |-> rows]
    ELSE [kind |-> "ok", err |-> "", rows |-> {r \in rows : ~(r.path = p \/ Like(r.path, p))}]

SqliteList(rows) == DirStructure(rows)

\* --- file backend: files holds one entry per file and per directory
MkdirAll(fs, dirs) ==
    IF \E k \in 1..Len(dirs) : \E e \in RowAt(fs, dirs[k]) : ~e.is_directory
    THEN [ok |-> FALSE, fs |-> fs]
    ELSE [ok |-> TRUE,
          fs |-> fs \cup {Row(dirs[k], TRUE, "") :
                            k \in {i \in 1..Len(dirs) :
                                      RowAt(fs, dirs[i]) = {} /\ ~Above(dirs[i])}}]

\* fullPath := filepath.Join(r.baseDir, normalizedPath), relative to baseDir
FullPath(path) == Clean(NormalizePath(path))

WriteFile(fs, p, c) ==
    IF \E e \in RowAt(fs, p) : e.is_directory
    THEN [ok |-> FALSE, fs |-> fs]
    ELSE [ok |-> TRUE, fs |-> {e \in fs : e.path # p} \cup {Row(p, FALSE, c)}]

FileWrite(fs, path, c) ==
    LET p == FullPath(path)
        made == MkdirAll(fs, Ancestors(p))
        wrote == WriteFile(made.fs, p, c)
    IN  IF ~made.ok THEN [kind |-> "error", err |-> "mkdir", fs |-> fs]
        ELSE IF ~wrote.ok THEN [kind |-> "error", err |-> "write", fs |-> made.fs]
        ELSE [kind |-> "ok", err |-> "", fs |-> wrote.fs]

\* os.ReadFile
FileRead(fs, path) ==
    LET found == RowAt(fs, FullPath(path))
    IN  IF found = {} THEN [kind |-> "error", err |-> "not found", value |-> ""]
        ELSE IF \E e \in found : e.is_directory
        THEN [kind |-> "error", err |-> "read", value |-> ""]
        ELSE [kind |-> "ok", err |-> "", value |-> (CHOOSE e \in found : TRUE).content]

\* os.Remove: a file, or a directory that is empty
CanRemove(fs, p) ==
    /\ RowAt(fs, p) # {}
    /\ ~\E e \in fs : Under(p, e.path)

\* removeEmptyParentDirs: remove dir and its ancestors while they are empty
RECURSIVE removeEmptyParentDirs(_, _)
removeEmptyParentDirs(fs, dir) ==
    IF dir = <<>> \/ ~CanRemove(fs, dir) THEN fs
    ELSE removeEmptyParentDirs({e \in fs : e.path # dir}, SubSeq(dir, 1, Len(dir) - 1))

FileDelete(fs, path) ==
    LET p == FullPath(path)
    IN  IF RowAt(fs, p) = {} THEN [kind |-> "error", err |-> "not found", fs |-> fs]
        ELSE IF ~CanRemove(fs, p) THEN [kind |-> "error", err |-> "delete", fs |-> fs]
        ELSE [kind |-> "ok", err |-> "",
              fs |-> removeEmptyParentDirs({e \in fs : e.path # p},
                                           SubSeq(p, 1, Len(p) - 1))]

\* filepath.Walk below baseDir
FileList(fs) == DirStructure({e \in fs : ~Outside(e.path)})

\* --- the calls
KnowledgeWrite(p, c) ==
    /\ IF backend = "sqlite"
       THEN /\ knowledge' = SqliteWrite(knowledge, p, c)
            /\ kv' = KEvent("write", p, c, "ok", "", "", {})
            /\ UNCHANGED files
       ELSE LET w == FileWrite(files, p, c)
            IN  /\ files' = w.fs
                /\ kv' = KEvent("write", p, c, w.kind, w.err, "", {})
                /\ UNCHANGED knowledge
    /\ UNCHANGED <<backend, tmplVars, taskVars, built, kpc>>

KnowledgeRead(p) ==
    /\ LET r == IF backend = "sqlite" THEN SqliteRead(knowledge, p) ELSE FileRead(files, p)
       IN  kv' = KEvent("read", p, "", r.kind, r.err, r.value, {})
    /\ UNCHANGED <<backend, tmplVars, taskVars, knowledge, files, built, kpc>>

KnowledgeDelete(p) ==
    /\ IF backend = "sqlite"
       THEN LET d == SqliteDelete(knowledge, p)
            IN  /\ knowledge' = d.rows
                /\ kv' = KEvent("delete", p, "", d.kind, d.err, "", {})
                /\ UNCHANGED files
       ELSE LET d == FileDelete(files, p)
            IN  /\ files' = d.fs
                /\ kv' = KEvent("delete", p, "", d.kind, d.err, "", {})
                /\ UNCHANGED knowledge
    /\ UNCHANGED <<backend, tmplVars, taskVars, built, kpc>>

KnowledgeList ==
    /\ kv' = KEvent("list", <<>>, "", "ok", "", "",
                    IF backend = "sqlite" THEN SqliteList(knowledge) ELSE FileList(files))
    /\ UNCHANGED <<backend, tmplVars, taskVars, knowledge, files, built, kpc>>

\* --- SQLite Write statement by statement: every r.db.Exec commits on its own
\* Write is called
SqliteWriteCall(w, p, c) ==
    /\ backend = "sqlite" /\ kpc[w].at = "idle"
    /\ kpc' = [kpc EXCEPT ![w] = [at |-> "write", path |-> p, content |-> c,
                                  dirs |-> ParentDirectories(p), made |-> {}]]
    /\ kv' = NoKEvent
    /\ UNCHANGED <<backend, tmplVars, taskVars, knowledge, files, built>>

\* ensureParentDirectories: the INSERT of the next directory
SqliteWriteDirectory(w) ==
    /\ kpc[w].at = "write" /\ kpc[w].dirs # <<>>
    /\ LET d == Head(kpc[w].dirs)
       IN  /\ knowledge' = InsertDirectories(knowledge, <<d>>)
           /\ kpc' = [kpc EXCEPT ![w].dirs = Tail(@),
                                 ![w].made = IF RowAt(knowledge, d) = {} THEN @ \cup {d} ELSE @]
    /\ kv' = NoKEvent
    /\ UNCHANGED <<backend, tmplVars, taskVars, files, built>>

\* the INSERT ... ON CONFLICT DO UPDATE of the document, and return nil
SqliteWriteUpsert(w) ==
    /\ kpc[w].at = "write" /\ kpc[w].dirs = <<>>
    /\ knowledge' = Upsert(knowledge, kpc[w].path, kpc[w].content)
    /\ kv' = KEvent("write", kpc[w].path, kpc[w].content, "ok", "", "", {})
    /\ kpc' = [kpc EXCEPT ![w] = NoKtx]
    /\ UNCHANGED <<backend, tmplVars, taskVars, files, built>>

\* an r.db.Exec of Write fails: the error is returned, nothing is undone
SqliteWriteExecFail(w) ==
    /\ kpc[w].at = "write"
    /\ kv' = KEvent("write", kpc[w].path, kpc[w].content, "error", "exec", "", {})
    /\ kpc' = [kpc EXCEPT ![w] = NoKtx]
    /\ UNCHANGED <<backend, tmplVars, taskVars, knowledge, files, built>>

\* --- building a tree, on its own
MaxEntries == 3

\* (path, flag) entries with distinct paths (UNIQUE(project, path)), in any order
EntrySeqs ==
    LET every == {Row(p, d, "") : p \in KPaths, d \in BOOLEAN}
    IN  UNION {{es \in [1..n -> every] :
                   \A i, j \in 1..n : i # j => es[i].path # es[j].path} : n \in 0..MaxEntries}

\* the entries inserted into an empty DirStructure, and inserted once more
BuildTree(entries) ==
    /\ ~built.done
    /\ LET once == InsertAll({}, entries)
       IN  built' = [entries |-> entries, once |-> once,
                     twice |-> InsertAll(once, entries), done |-> TRUE]
    /\ UNCHANGED <<backend, tmplVars, taskVars, knowledge, files, kv, kpc>>

\* ---------------------------------------------------------- template store
\* --- resolveTemplate: regexp \$\{([^}]+)\} with ReplaceAllStringFunc
\* the index of the "}" that ends a match starting at i, 0 when none starts there
MatchEnd(str, i) ==
    IF /\ i + 3 <= Len(str)
       /\ str[i] = "$" /\ str[i + 1] = "{" /\ str[i + 2] # "}"
       /\ \E j \in (i + 3)..Len(str) : str[j] = "}"
    THEN CHOOSE j \in (i + 3)..Len(str) :
             str[j] = "}" /\ \A k \in (i + 3)..(j - 1) : str[k] # "}"
    ELSE 0

\* seeded fault: the text put in for a placeholder is scanned again
RECURSIVE ReplaceFromRescan(_, _, _)
ReplaceFromRescan(str, i, parameters) ==
    IF i > Len(str) THEN <<>>
    ELSE LET m == MatchEnd(str, i)
         IN  IF m = 0 THEN <<str[i]>> \o ReplaceFromRescan(str, i + 1, parameters)
             ELSE LET paramName == SubSeq(str, i + 2, m - 1)
                  IN  IF paramName \in DOMAIN parameters
                      THEN ReplaceFromRescan(parameters[paramName] \o SubSeq(str, m + 1, Len(str)),
                                             1, [n \in DOMAIN parameters \ {paramName} |-> parameters[n]])
                      ELSE SubSeq(str, i, m) \o ReplaceFromRescan(str, m + 1, parameters)

resolveTemplateRescan(str, parameters) == ReplaceFromRescan(str, 1, parameters)

\* the matches from left to right, none overlapping; each is replaced by the
\* value of its name, or kept when the name has no value
RECURSIVE ReplaceFrom(_, _, _)
ReplaceFrom(str, i, parameters) ==
    IF i > Len(str) THEN <<>>
    ELSE LET m == MatchEnd(str, i)
         IN  IF m = 0 THEN <<str[i]>> \o ReplaceFrom(str, i + 1, parameters)
             ELSE LET paramName == SubSeq(str, i + 2, m - 1)
                  IN  (IF paramName \in DOMAIN parameters THEN parameters[paramName]
                       ELSE SubSeq(str, i, m))
                      \o ReplaceFrom(str, m + 1, parameters)

resolveTemplate(str, parameters) == ReplaceFrom(str, 1, parameters)

\* --- the handlers' checks
\* seeded fault: every template passes
validateTemplateLax(t) == ""

\* validateTemplate: "" when the template passes, else the complaint
validateTemplate(t) ==
    IF t.name = "" THEN "template name is required"
    ELSE IF t.description = "" THEN "template description is required"
    ELSE IF Len(t.tasks) = 0 THEN "template must have at least one task"
    ELSE IF \E n \in DOMAIN t.parameters : n = <<>> THEN "parameter name cannot be empty"
    ELSE IF \E n \in DOMAIN t.parameters : t.parameters[n].type = ""
         THEN "parameter must have a type"
    ELSE IF \E n \in DOMAIN t.parameters :
                t.parameters[n].type = "enum" /\ t.parameters[n].values = {}
         THEN "enum parameter must have values"
    ELSE ""

\* seeded fault: a required parameter is never looked for
validateTemplateParametersLax(t, parameters) == ""

\* validateTemplateParameters: "" when the parameters pass, else the complaint
validateTemplateParameters(t, parameters) ==
    IF \E n \in DOMAIN t.parameters :
           /\ t.parameters[n].required
           /\ (n \notin DOMAIN parameters \/ parameters[n] = <<>>)
    THEN "required parameter is missing"
    ELSE IF \E n \in DOMAIN parameters \cap DOMAIN t.parameters :
                /\ t.parameters[n].type = "enum" /\ t.parameters[n].values # {}
                /\ parameters[n] \notin t.parameters[n].values
         THEN "parameter must be one of its values"
    ELSE ""

\* --- the repositories
\* time.Now() of a template call: every call reads a later instant
MaxTClock == 3

\* time.Now().Unix(): instants of the same second share it
TicksPerSecond == 2

Unix(t) == t \div TicksPerSecond

\* generateTemplateID, generateFileTemplateID: the name and the second
generateTemplateID(name, t) == <<name, Unix(t)>>

\* the row, or the file, of an id: at most one
TemplateAt(id) == {t \in templates : t.id = id}

Exists(id) == TemplateAt(id) # {}

TheTemplate(id) == CHOOSE t \in TemplateAt(id) : TRUE

\* os.WriteFile of <id>.yaml: the file is created or replaced
saveTemplate(t) == {o \in templates : o.id # t.id} \cup {t}

\* seeded fault: the UPDATE stamps created_at too
SqlUpdateCreatedAt(t, updatedAt) ==
    {IF o.id = t.id
     THEN [t EXCEPT !.created_at = updatedAt, !.updated_at = updatedAt]
     ELSE o : o \in templates}

\* UPDATE task_templates SET name, description, ..., updated_at WHERE id = ?
SqlUpdate(t, updatedAt) ==
    {IF o.id = t.id
     THEN [o EXCEPT !.name = t.name, !.description = t.description,
                    !.parameters = t.parameters, !.tasks = t.tasks,
                    !.updated_at = updatedAt]
     ELSE o : o \in templates}

\* SqliteRepository.InstantiateTemplate: the declared parameters, each with the
\* caller's value or else its non-empty default
SqliteResolved(t, parameters) ==
    [n \in {m \in DOMAIN t.parameters :
                m \in DOMAIN parameters \/ t.parameters[m].default # <<>>} |->
        IF n \in DOMAIN parameters THEN parameters[n] ELSE t.parameters[n].default]

\* FileRepository.InstantiateTemplate: the caller's parameters as they are
FileResolved(t, parameters) == parameters

\* FileRepository.InstantiateTemplate: the required parameters are present
FileRequired(t, parameters) ==
    \A n \in DOMAIN t.parameters : t.parameters[n].required => n \in DOMAIN parameters

\* what InstantiateTemplate returns for a stored template: the instance, or
\* the error
Instance(parameters, tsks) == [kind |-> "ok", parameters |-> parameters, tasks |-> tsks]

NoInstance == [kind |-> "error", parameters |-> EmptyMap, tasks |-> <<>>]

\* seeded fault: no task string is resolved
ResolvedTasksNone(t, resolved) == <<>>

ResolvedTasks(t, resolved) == [i \in 1..Len(t.tasks) |-> resolveTemplate(t.tasks[i], resolved)]

SqliteInstantiateTemplate(t, parameters) ==
    Instance(SqliteResolved(t, parameters), ResolvedTasks(t, SqliteResolved(t, parameters)))

FileInstantiateTemplate(t, parameters) ==
    IF ~FileRequired(t, parameters) THEN NoInstance
    ELSE Instance(FileResolved(t, parameters), ResolvedTasks(t, FileResolved(t, parameters)))

\* --- the calls' inputs
X == <<"x">>

Y == <<"y">>

CreateXWithY == <<"Create ">> \o Placeholder(X) \o <<" with ">> \o Placeholder(Y)

Foo == <<"foo">>

Medium == <<"medium">>

RequiredString == Parameter("string", TRUE, <<>>, {})

OptionalMedium == Parameter("string", FALSE, Medium, {})

RequiredMedium == Parameter("string", TRUE, Medium, {})

EnumFoo == Parameter("enum", FALSE, <<>>, {Foo})

NoType == Parameter("", FALSE, <<>>, {})

EnumNoValues == Parameter("enum", FALSE, <<>>, {})

Params(px, py) == [n \in {X, Y} |-> IF n = X THEN px ELSE py]

T1 == <<"t1">>

\* templates that pass validateTemplate: two of id t1, one without an id
ValidTemplates ==
    {TaskTemplate(T1, "n", "d", Params(RequiredString, OptionalMedium), <<CreateXWithY>>, 0, 0),
     TaskTemplate(T1, "m", "d", Params(EnumFoo, RequiredMedium), <<CreateXWithY>>, 7, 0),
     TaskTemplate(<<>>, "n", "d", [n \in {X} |-> RequiredString], <<CreateXWithY>>, 0, 0)}

\* templates that do not
InvalidTemplates ==
    LET t == TaskTemplate(T1, "n", "d", Params(RequiredString, OptionalMedium), <<CreateXWithY>>, 0, 0)
    IN  {[t EXCEPT !.name = ""], [t EXCEPT !.description = ""], [t EXCEPT !.tasks = <<>>],
         [t EXCEPT !.parameters = [n \in {<<>>} |-> RequiredString]],
         [t EXCEPT !.parameters = Params(NoType, OptionalMedium)],
         [t EXCEPT !.parameters = Params(RequiredString, EnumNoValues)]}

TemplateInputs == ValidTemplates \cup InvalidTemplates

\* the ids a call may name: t1 and the generated ones
TemplateIds == {T1} \cup {generateTemplateID("n", t) : t \in 1..MaxTClock}

\* the caller's parameters of an instantiation: none, x, x and y, each value
\* a text or the empty string
CallerParameters ==
    {EmptyMap} \cup [{X} -> {Foo, <<>>}]
        \cup {[n \in {X, Y} |-> IF n = X THEN Foo ELSE v] : v \in {Foo, <<>>}}

\* --- the handlers
TReturn(w, e) ==
    /\ tpc' = [tpc EXCEPT ![w] = "idle"]
    /\ ttx' = [ttx EXCEPT ![w] = NoTtx]
    /\ tv' = e

\* task_template_create: validateTemplate, then CreateTemplate up to its
\* INSERT (SQLite) or its os.Stat (file)
TemplateCreate(w, t) ==
    /\ tpc[w] = "idle"
    /\ IF validateTemplate(t) # ""
       THEN /\ tv' = TEvent("create", t.id, t, EmptyMap, "error", "validation", NoTemplate, <<>>)
            /\ UNCHANGED <<templates, tclock, tpc, ttx>>
       ELSE /\ tclock < MaxTClock
            /\ tclock' = tclock + 1
            /\ LET id == IF t.id = <<>> THEN generateTemplateID(t.name, tclock') ELSE t.id
                   new == [t EXCEPT !.id = id, !.created_at = tclock', !.updated_at = tclock']
               IN  IF Exists(id)
                   THEN /\ tv' = TEvent("create", id, t, EmptyMap, "error", "already exists",
                                        NoTemplate, <<>>)
                        /\ UNCHANGED <<templates, tpc, ttx>>
                   ELSE IF backend = "sqlite"
                   THEN /\ templates' = templates \cup {new}
                        /\ tv' = TEvent("create", id, t, EmptyMap, "ok", "", new, <<>>)
                        /\ UNCHANGED <<tpc, ttx>>
                   ELSE /\ tpc' = [tpc EXCEPT ![w] = "save"]
                        /\ ttx' = [ttx EXCEPT ![w] = [NoTtx EXCEPT !.op = "create", !.id = id,
                                                                 !.template = new]]
                        /\ tv' = NoTEvent
                        /\ UNCHANGED templates
    /\ UNCHANGED <<backend, taskVars, knowVars, subst>>

\* saveTemplate of the file backend's CreateTemplate
FileSaveCreate(w) ==
    /\ tpc[w] = "save" /\ ttx[w].op = "create"
    /\ templates' = saveTemplate(ttx[w].template)
    /\ TReturn(w, TEvent("create", ttx[w].id, ttx[w].template, EmptyMap, "ok", "",
                         ttx[w].template, <<>>))
    /\ UNCHANGED <<backend, taskVars, knowVars, subst, tclock>>

\* task_template_get: GetTemplate
TemplateGet(w, id) ==
    /\ tpc[w] = "idle"
    /\ tv' = IF Exists(id)
             THEN TEvent("get", id, NoTemplate, EmptyMap, "ok", "", TheTemplate(id), <<>>)
             ELSE TEvent("get", id, NoTemplate, EmptyMap, "error", "template not found",
                         NoTemplate, <<>>)
    /\ UNCHANGED <<backend, taskVars, knowVars, subst, templates, tclock, tpc, ttx>>

\* task_template_update up to its call of UpdateTemplate: the id, GetTemplate,
\* the creation time of the stored template, validateTemplate
TemplateUpdate(w, t) ==
    /\ tpc[w] = "idle"
    /\ IF t.id = <<>>
       THEN /\ tv' = TEvent("update", t.id, t, EmptyMap, "error", "id is required", NoTemplate, <<>>)
            /\ UNCHANGED <<tpc, ttx>>
       ELSE IF ~Exists(t.id)
       THEN /\ tv' = TEvent("update", t.id, t, EmptyMap, "error", "template not found",
                            NoTemplate, <<>>)
            /\ UNCHANGED <<tpc, ttx>>
       ELSE LET kept == [t EXCEPT !.created_at = TheTemplate(t.id).created_at]
            IN  IF validateTemplate(kept) # ""
                THEN /\ tv' = TEvent("update", t.id, t, EmptyMap, "error", "validation",
                                     NoTemplate, <<>>)
                     /\ UNCHANGED <<tpc, ttx>>
                ELSE /\ tpc' = [tpc EXCEPT ![w] = "update"]
                     /\ ttx' = [ttx EXCEPT ![w] = [NoTtx EXCEPT !.op = "update", !.id = t.id,
                                                              !.template = kept]]
                     /\ tv' = NoTEvent
    /\ UNCHANGED <<backend, taskVars, knowVars, subst, templates, tclock>>

\* UpdateTemplate: the UPDATE of SQLite, or the os.Stat of the file backend
TemplateUpdateStore(w) ==
    /\ tpc[w] = "update"
    /\ IF backend = "sqlite"
       THEN /\ tclock < MaxTClock
            /\ tclock' = tclock + 1
            /\ IF Exists(ttx[w].id)
               THEN /\ templates' = SqlUpdate(ttx[w].template, tclock')
                    /\ TReturn(w, TEvent("update", ttx[w].id, ttx[w].template, EmptyMap, "ok", "",
                                         [ttx[w].template EXCEPT !.updated_at = tclock'], <<>>))
               ELSE /\ TReturn(w, TEvent("update", ttx[w].id, ttx[w].template, EmptyMap, "error",
                                         "template not found", NoTemplate, <<>>))
                    /\ UNCHANGED templates
       ELSE /\ IF Exists(ttx[w].id)
               THEN /\ tpc' = [tpc EXCEPT ![w] = "save"]
                    /\ tv' = NoTEvent
                    /\ UNCHANGED ttx
               ELSE TReturn(w, TEvent("update", ttx[w].id, ttx[w].template, EmptyMap, "error",
                                      "template not found", NoTemplate, <<>>))
            /\ UNCHANGED <<templates, tclock>>
    /\ UNCHANGED <<backend, taskVars, knowVars, subst>>

\* the file backend's UpdateTemplate after os.Stat: time.Now(), saveTemplate
FileSaveUpdate(w) ==
    /\ tpc[w] = "save" /\ ttx[w].op = "update"
    /\ tclock < MaxTClock
    /\ tclock' = tclock + 1
    /\ LET new == [ttx[w].template EXCEPT !.updated_at = tclock']
       IN  /\ templates' = saveTemplate(new)
           /\ TReturn(w, TEvent("update", ttx[w].id, ttx[w].template, EmptyMap, "ok", "", new, <<>>))
    /\ UNCHANGED <<backend, taskVars, knowVars, subst>>

\* seeded fault: the row, or the file, stays
RemoveNothing(id) == templates

\* DELETE FROM task_templates WHERE id = ?, os.Remove of <id>.yaml
Remove(id) == templates \ TemplateAt(id)

\* task_template_delete: DeleteTemplate
TemplateDelete(w, id) ==
    /\ tpc[w] = "idle"
    /\ IF Exists(id)
       THEN /\ templates' = Remove(id)
            /\ tv' = TEvent("delete", id, NoTemplate, EmptyMap, "ok", "", NoTemplate, <<>>)
       ELSE /\ tv' = TEvent("delete", id, NoTemplate, EmptyMap, "error", "template not found",
                            NoTemplate, <<>>)
            /\ UNCHANGED templates
    /\ UNCHANGED <<backend, taskVars, knowVars, subst, tclock, tpc, ttx>>

\* the instantiations of one behaviour
MaxInstances == 1

\* the chat session of an instantiation
TemplateScopes == {"A"}

\* tasks still owed by instantiations in flight
RECURSIVE TOwed(_)
TOwed(ws) ==
    IF ws = {} THEN 0
    ELSE LET w == CHOOSE x \in ws : TRUE
         IN  (IF ttx[w].op = "instantiate" THEN 1 ELSE 0) + TOwed(ws \ {w})

\* the task strings that callers of addTasks pass next to template calls
TextBatches == {<<Foo>>, <<Foo, Medium>>}

\* a task that an instantiation queued
FromTemplate(t) == \A b \in TextBatches : t.content \notin Range(b)

\* task_template_instantiate up to its call of InstantiateTemplate:
\* GetTemplate, validateTemplateParameters
TemplateInstantiate(w, id, parameters, s) ==
    /\ tpc[w] = "idle"
    /\ Len(SelectSeq(added, FromTemplate)) + TOwed(Workers) < MaxInstances
    /\ IF ~Exists(id)
       THEN /\ tv' = TEvent("instantiate", id, NoTemplate, parameters, "error",
                            "template not found", NoTemplate, <<>>)
            /\ UNCHANGED <<tpc, ttx>>
       ELSE IF validateTemplateParameters(TheTemplate(id), parameters) # ""
       THEN /\ tv' = TEvent("instantiate", id, TheTemplate(id), parameters, "error",
                            validateTemplateParameters(TheTemplate(id), parameters),
                            NoTemplate, <<>>)
            /\ UNCHANGED <<tpc, ttx>>
       ELSE /\ tpc' = [tpc EXCEPT ![w] = "instantiate"]
            /\ ttx' = [ttx EXCEPT ![w] = [NoTtx EXCEPT !.op = "instantiate", !.id = id,
                                                     !.template = TheTemplate(id),
                                                     !.parameters = parameters, !.scope = s]]
            /\ tv' = NoTEvent
    /\ UNCHANGED <<backend, taskVars, knowVars, subst, templates, tclock>>

\* InstantiateTemplate: GetTemplate once more, the resolved parameters, the
\* resolved task strings
TemplateInstantiateStore(w) ==
    /\ tpc[w] = "instantiate"
    /\ IF ~Exists(ttx[w].id)
       THEN TReturn(w, TEvent("instantiate", ttx[w].id, ttx[w].template, ttx[w].parameters,
                              "error", "template not found", NoTemplate, <<>>))
       ELSE LET t == TheTemplate(ttx[w].id)
            IN  IF backend = "file" /\ ~FileRequired(t, ttx[w].parameters)
                THEN TReturn(w, TEvent("instantiate", ttx[w].id, t, ttx[w].parameters, "error",
                                       "required parameter is missing", NoTemplate, <<>>))
                ELSE LET resolved == IF backend = "sqlite"
                                     THEN SqliteResolved(t, ttx[w].parameters)
                                     ELSE FileResolved(t, ttx[w].parameters)
                     IN  /\ tpc' = [tpc EXCEPT ![w] = "enqueue"]
                         /\ ttx' = [ttx EXCEPT ![w].template = t,
                                               ![w].resolved = ResolvedTasks(t, resolved)]
                         /\ tv' = NoTEvent
    /\ UNCHANGED <<backend, taskVars, knowVars, subst, templates, tclock>>

\* taskRepo.AddTasks of the resolved task strings, run to its end, and the
\* handler's result
TemplateEnqueue(w) ==
    /\ tpc[w] = "enqueue"
    /\ IF backend = "sqlite"
       THEN LET rows == Tagged([i \in 1..Len(ttx[w].resolved) |->
                                   Task(seq + i, ttx[w].scope, ttx[w].resolved[i], now)],
                               Len(added))
            IN  /\ tasks' = tasks \cup Range(rows)
                /\ seq' = seq + Len(rows)
                /\ added' = added \o Hist(rows)
                /\ UNCHANGED <<fileTasks, fileNextID>>
       ELSE LET new == Tagged(NewTasks(fileNextID, ttx[w].resolved, now), Len(added))
                f == FileAddTasks([Tasks |-> fileTasks, NextID |-> fileNextID], new)
            IN  /\ fileTasks' = f.Tasks
                /\ fileNextID' = f.NextID
                /\ added' = added \o Hist(new)
                /\ UNCHANGED <<tasks, seq>>
    /\ TReturn(w, TEvent("instantiate", ttx[w].id, ttx[w].template, ttx[w].parameters, "ok", "",
                         NoTemplate, ttx[w].resolved))
    /\ UNCHANGED <<backend, knowVars, subst, templates, tclock, shared, reserved, mutex, now,
                   pc, tx, delivered, cleared, epoch, ev>>

\* --- inputs of the substitution: task strings built from pieces
MaxPieces == 3

\* parameter names: any text without "}"
Names == {<<"x">>, <<"y">>}

\* values: a text, the empty string, a text that is itself a placeholder
Values == {<<"v">>, <<>>, Placeholder(<<"y">>)}

Lit(t) == [kind |-> "lit", text |-> t]

Ref(n) == [kind |-> "ref", name |-> n]

\* literal text never holds "${": every placeholder of a task string is a Ref
Pieces == {Lit(<<"a">>), Lit(<<"$">>), Lit(<<"}">>)} \cup {Ref(n) : n \in Names}

PieceSeqs == UNION {[1..n -> Pieces] : n \in 0..MaxPieces}

ParameterMaps == UNION {[D -> Values] : D \in SUBSET Names}

RECURSIVE Flatten(_)
Flatten(pieces) ==
    IF pieces = <<>> THEN <<>>
    ELSE (IF Head(pieces).kind = "lit" THEN Head(pieces).text
          ELSE Placeholder(Head(pieces).name)) \o Flatten(Tail(pieces))

\* one call of resolveTemplate, on a task string not substituted yet
Substitute(pieces, parameters) ==
    /\ subst = NoSubst
    /\ subst' = [template |-> Flatten(pieces), parameters |-> parameters,
                 result |-> resolveTemplate(Flatten(pieces), parameters),
                 pieces |-> pieces]
    /\ UNCHANGED <<backend, taskVars, knowVars, templates, tclock, tpc, ttx, tv>>

\* ------------------------------------------------------------ environment
\* Timestamps are only compared among stored rows, so the clock is kept up to
\* order: it moves on once the present instant has stamped a row.
Stamped ==
    \/ \E r \in tasks \cup Range(fileTasks) : r.created = now
    \/ \E w \in Workers : \E i \in 1..Len(tx[w].ins) : tx[w].ins[i].created = now

Tick ==
    /\ now < MaxClock
    /\ Stamped
    /\ now' = now + 1
    /\ ev' = NoEvent
    /\ UNCHANGED <<backend, knowVars, tmplVars, sqlVars, fileVars, pc, tx, histVars, epoch>>

\* Close, then NewFileRepository / NewSqliteRepository on the same location:
\* tasks.yaml exists and the tables exist, so what is stored stays as it is
Restart ==
    /\ \A w \in Workers : pc[w] = "idle"
    /\ epoch < MaxRestarts
    /\ epoch' = epoch + 1
    /\ ev' = NoEvent
    /\ UNCHANGED <<backend, knowVars, tmplVars, sqlVars, fileVars, now, pc, tx, histVars>>

\* ---------------------------------------------------------- specifications
Calls(w) ==
    \/ \E c \in Batches : FileCallAdd(w, c)
    \/ FileCallGet(w)
    \/ \E s \in Scopes, c \in Batches : SqlAddTasks(w, s, c)
    \/ \E s \in Scopes : SqlGetTask(w, s)

Steps(w) ==
    \/ FileLock(w)
    \/ FileLoad(w)
    \/ FileSaveAdd(w)
    \/ FileSaveGet(w)
    \/ SqlInsert(w)
    \/ SqlCommitAdd(w)
    \/ SqlRetrieve(w)
    \/ SqlDelete(w)
    \/ SqlCommitGet(w)

BusySteps(w) ==
    \/ \E s \in Scopes, c \in Batches : SqlAddTasksBusy(w, s, c)
    \/ SqlCommitBusy(w)
    \/ SqlDeleteBusy(w)

\* concurrent callers of addTasks and getTask
Next ==
    \/ \E w \in Workers : Calls(w)
    \/ \E w \in Workers : Steps(w)
    \/ \E w \in Workers : BusySteps(w)
    \/ Tick

Spec == Init /\ [][Next]_vars

\* one call at a time: addTasks, getTask, the clear operations and restarts
AllIdle == \A w \in Workers : pc[w] = "idle"

SeqNext ==
    \/ AllIdle /\ \E w \in Workers : Calls(w)
    \/ AllIdle /\ \E w \in Workers : FileCallClear(w)
    \/ AllIdle /\ \E w \in Workers, s \in Scopes : SqlClear(w, s)
    \/ \E w \in Workers : Steps(w)
    \/ \E w \in Workers : FileSaveClear(w)
    \/ Tick
    \/ Restart

SeqSpec == Init /\ [][SeqNext]_vars

\* the one client of the specifications that issue one call at a time
Client == CHOOSE w \in Workers : TRUE

\* one client that adds tasks and calls getTask again and again
DrainNext ==
    \/ AllIdle /\ Calls(Client)
    \/ Steps(Client)
    \/ Tick

\* a handler that was called runs to its return (the goroutine serving the
\* request is scheduled and nothing else holds the mutex or a database lock);
\* the client calls getTask for each scope again whenever the server is idle
DrainFairness ==
    /\ WF_vars(Steps(Client))
    /\ SF_vars(AllIdle /\ FileCallGet(Client))
    /\ \A s \in Scopes : SF_vars(AllIdle /\ SqlGetTask(Client, s))

DrainSpec == Init /\ [][DrainNext]_vars /\ DrainFairness

\* callers of the SQLite knowledge store, their statements interleaved
KRacePaths ==
    {<<Seg("a", ""), Seg("b", ".md")>>,
     <<Seg("a", ""), Seg("c", ""), Seg("d", ".md")>>,
     <<Seg("a", "")>>}

KnowledgeRaceNext ==
    \/ \E w \in Workers, p \in KRacePaths : SqliteWriteCall(w, p, "x")
    \/ \E w \in Workers : SqliteWriteDirectory(w)
    \/ \E w \in Workers : SqliteWriteUpsert(w)
    \/ \E w \in Workers : SqliteWriteExecFail(w)
    \/ backend = "sqlite" /\ \E p \in KRacePaths : KnowledgeRead(p)
    \/ backend = "sqlite" /\ \E p \in KRacePaths : KnowledgeDelete(p)
    \/ backend = "sqlite" /\ KnowledgeList

KnowledgeRaceSpec == Init /\ [][KnowledgeRaceNext]_vars

\* one caller of the knowledge store whose paths hold "_" and capitals
WildPaths ==
    {<<Seg("a_", "")>>,
     <<Seg("a_", ""), Seg("c", ".md")>>,
     <<Seg("ab", "")>>,
     <<Seg("ab", ""), Seg("c", ".md")>>,
     <<Seg("AB", ""), Seg("c", ".md")>>}

WildNext ==
    \/ \E p \in WildPaths : KnowledgeWrite(p, "x")
    \/ \E p \in WildPaths : KnowledgeRead(p)
    \/ \E p \in WildPaths : KnowledgeDelete(p)
    \/ KnowledgeList

WildSpec == Init /\ [][WildNext]_vars

\* one tree built from a sequence of entries
TreeNext == \E entries \in EntrySeqs : BuildTree(entries)

TreeSpec == Init /\ [][TreeNext]_vars

\* one caller of the knowledge store whose paths are absolute or hold ".."
EscapePaths ==
    {<<DotDot, Seg("x", "")>>,
     <<Seg("a", ""), DotDot, DotDot, Seg("x", ".md")>>,
     <<DotDot, Seg("d", ""), Seg("x", "")>>,
     <<Seg("", ""), Seg("a", ""), Seg("b", "")>>,
     <<Seg("a", ""), Seg("b", ".md")>>}

EscapeNext ==
    \/ \E p \in EscapePaths, c \in KContents : KnowledgeWrite(p, c)
    \/ \E p \in EscapePaths : KnowledgeRead(p)
    \/ \E p \in EscapePaths : KnowledgeDelete(p)
    \/ KnowledgeList

EscapeSpec == Init /\ [][EscapeNext]_vars

\* the SQLite task queue with a failure at any step of a call
FaultSteps(w) ==
    \/ \E op \in {"add", "get"}, s \in Scopes : SqlBeginFail(w, op, s)
    \/ \E s \in Scopes, c \in Batches : SqlPrepareFail(w, s, c)
    \/ SqlInsertFail(w)
    \/ SqlDeleteFail(w)
    \/ SqlCommitFail(w)

SqlCalls(w) ==
    \/ \E s \in Scopes, c \in Batches : SqlAddTasks(w, s, c)
    \/ \E s \in Scopes : SqlGetTask(w, s)

SqlSteps(w) ==
    \/ SqlInsert(w)
    \/ SqlCommitAdd(w)
    \/ SqlRetrieve(w)
    \/ SqlDelete(w)
    \/ SqlCommitGet(w)

FaultNext ==
    \/ \E w \in Workers : SqlCalls(w)
    \/ \E w \in Workers : SqlSteps(w)
    \/ \E w \in Workers : BusySteps(w)
    \/ \E w \in Workers : FaultSteps(w)

FaultSpec == Init /\ [][FaultNext]_vars

\* one caller of the knowledge store
KnowledgeNext ==
    \/ \E p \in KPaths, c \in KContents : KnowledgeWrite(p, c)
    \/ \E p \in KPaths : KnowledgeRead(p)
    \/ \E p \in KPaths : KnowledgeDelete(p)
    \/ KnowledgeList

KnowledgeSpec == Init /\ [][KnowledgeNext]_vars

\* template calls, each handler step of each worker interleaved
TemplateCalls(w) ==
    \/ \E t \in TemplateInputs : TemplateCreate(w, t)
    \/ \E id \in TemplateIds : TemplateGet(w, id)
    \/ \E t \in TemplateInputs : TemplateUpdate(w, t)
    \/ \E id \in TemplateIds : TemplateDelete(w, id)
    \/ \E id \in TemplateIds, parameters \in CallerParameters, s \in TemplateScopes :
           TemplateInstantiate(w, id, parameters, s)

TemplateSteps(w) ==
    \/ FileSaveCreate(w)
    \/ TemplateUpdateStore(w)
    \/ FileSaveUpdate(w)
    \/ TemplateInstantiateStore(w)
    \/ TemplateEnqueue(w)

TemplateNext ==
    \/ TemplateCalls(Client)
    \/ TemplateSteps(Client)

TemplateSpec == Init /\ [][TemplateNext]_vars

\* the calls that meet on one id: its two valid templates, two parameter maps
\* a later version of t1 that makes y required and declares no default for it
RequiredLater ==
    TaskTemplate(T1, "n", "d", Params(OptionalMedium, RequiredString), <<CreateXWithY>>, 0, 0)

RaceTemplates == {t \in ValidTemplates : t.id = T1} \cup {RequiredLater}

RaceParameters == {[n \in {X} |-> Foo], [n \in {X, Y} |-> Foo]}

TemplateRaceCalls(w) ==
    \/ \E t \in RaceTemplates : TemplateCreate(w, t)
    \/ TemplateGet(w, T1)
    \/ \E t \in RaceTemplates : TemplateUpdate(w, t)
    \/ TemplateDelete(w, T1)
    \/ \E parameters \in RaceParameters, s \in TemplateScopes :
           TemplateInstantiate(w, T1, parameters, s)

\* template calls of the workers, interleaved step by step
TemplateRaceNext ==
    \/ \E w \in Workers : TemplateRaceCalls(w)
    \/ \E w \in Workers : TemplateSteps(w)

TemplateRaceSpec == Init /\ [][TemplateRaceNext]_vars

\* one client that adds tasks and creates and instantiates templates, one
\* call at a time
TemplateIdle == \A w \in Workers : tpc[w] = "idle"

EnqueueNext ==
    \/ AllIdle /\ TemplateIdle /\ \E c \in TextBatches : FileCallAdd(Client, c)
    \/ AllIdle /\ TemplateIdle /\ \E c \in TextBatches : SqlAddTasks(Client, GlobalScope, c)
    \/ FileLock(Client)
    \/ FileLoad(Client)
    \/ FileSaveAdd(Client)
    \/ SqlInsert(Client)
    \/ SqlCommitAdd(Client)
    \/ SqlRetrieve(Client)
    \/ Tick
    \/ AllIdle /\ \E t \in RaceTemplates : TemplateCreate(Client, t)
    \/ FileSaveCreate(Client)
    \/ AllIdle /\ \E parameters \in CallerParameters :
                      TemplateInstantiate(Client, T1, parameters, GlobalScope)
    \/ TemplateInstantiateStore(Client)
    \/ TemplateEnqueue(Client)

EnqueueSpec == Init /\ [][EnqueueNext]_vars

\* one client of templates with an enum parameter that declares a default
EnumDefault(default) == Parameter("enum", FALSE, default, {Foo})

EnumTemplates ==
    {TaskTemplate(T1, "n", "d", Params(RequiredString, EnumDefault(d)), <<CreateXWithY>>, 0, 0) :
        d \in {Foo, Medium}}

EnumNext ==
    \/ \E t \in EnumTemplates : TemplateCreate(Client, t)
    \/ FileSaveCreate(Client)
    \/ TemplateDelete(Client, T1)
    \/ \E parameters \in CallerParameters : TemplateInstantiate(Client, T1, parameters, GlobalScope)
    \/ TemplateInstantiateStore(Client)
    \/ TemplateEnqueue(Client)

EnumSpec == Init /\ [][EnumNext]_vars

SubstNext == \E pieces \in PieceSeqs, parameters \in ParameterMaps : Substitute(pieces, parameters)

SubstSpec == Init /\ [][SubstNext]_vars

\* ------------------------------------------------------------------ claims
\* the rows in storage
Stored == IF backend = "file" THEN Range(fileTasks) ELSE tasks

\* the tasks queued for a scope (the file backend keeps one global queue)
Queued(s) == {r \in Stored : r.scope = s}

Uids(rows) == {r.uid : r \in rows}

DeliveredTasks == UNION {Range(delivered[s]) : s \in AllScopes}

OfScope(log, s) == SelectSeq(log, LAMBDA t : t.scope = s)

\* what was added to a scope and not taken away by a clear operation
Expected(s) == SelectSeq(added, LAMBDA t : t.scope = s /\ t.uid \notin cleared)

Mark(log) == [i \in 1..Len(log) |-> <<log[i].uid, log[i].content>>]

StorageUnchanged ==
    /\ tasks' = tasks /\ seq' = seq
    /\ fileTasks' = fileTasks /\ fileNextID' = fileNextID

\* every task added to scope s has been returned by a getTask call
Drained(s) ==
    /\ Expected(s) # <<>>
    /\ Mark(delivered[s]) = Mark(Expected(s))

FifoPrefix ==
    \A s \in AllScopes : IsPrefix(Mark(delivered[s]), Mark(Expected(s)))

C2_ExactlyOnce ==
    /\ \A s, t \in AllScopes : \A i \in 1..Len(delivered[s]) : \A j \in 1..Len(delivered[t]) :
           (s # t \/ i # j) => delivered[s][i].uid # delivered[t][j].uid
    /\ (1..Len(added)) \ (Uids(Stored) \cup cleared) = Uids(DeliveredTasks)

C2_Witness ==
    /\ DeliveredTasks # {}
    /\ \E w, v \in Workers :
          /\ w # v
          /\ tx[w].op = "get" /\ tx[v].op = "get"
          /\ pc[w] = "commit" /\ pc[v] = "delete"
          /\ tx[w].sel = tx[v].sel

\* C3: getTask(B) returns only tasks added with scope B, and per scope the
\* tasks added are the tasks still stored, returned to that scope, or cleared.
C3_ScopeIsolation ==
    /\ \A s \in AllScopes : \A i \in 1..Len(delivered[s]) : delivered[s][i].scope = s
    /\ \A s \in AllScopes :
          Uids(Range(OfScope(added, s))) \ cleared
              = Uids(Queued(s)) \cup Uids(Range(delivered[s]))

C3_Witness ==
    \E s \in Scopes : \E i \in 1..Len(delivered[s]) : \E r \in tasks :
        /\ r.scope # s
        /\ r.id < delivered[s][i].id

C5_SqliteNoPendingTasks ==
    [][(backend = "sqlite" /\ ev'.op = "get" /\ Queued(ev'.scope) = {})
          => /\ ev'.kind = "error" /\ ev'.err = "no pending tasks"
             /\ ev'.tasks = <<>>
             /\ tasks' = tasks]_vars

C5_Witness ==
    /\ backend = "sqlite"
    /\ ev.op = "get" /\ ev.kind = "error" /\ ev.err = "no pending tasks"
    /\ \E u \in cleared : added[u].scope = ev.scope
    /\ \E s \in Scopes : s # ev.scope /\ Queued(s) # {}

\* C6: every newly created task gets an identity greater than every identity
\* assigned before, across addTasks, getTask, clear operations and restarts.
C6_IdentitiesNeverReused ==
    \A i, j \in 1..Len(added) : i < j => added[i].id < added[j].id

\* C7: an addTasks call returns its tasks in input order with strictly
\* ascending identities, and no identity of one batch lies between (or on)
\* two identities of another batch.
C7_BatchIsOneBlock ==
    /\ (ev.op = "add" /\ ev.kind = "ok") =>
          /\ Len(ev.tasks) = Len(ev.arg)
          /\ \A i \in 1..Len(ev.tasks) : ev.tasks[i].content = ev.arg[i]
          /\ \A i \in 1..(Len(ev.tasks) - 1) : ev.tasks[i].id < ev.tasks[i + 1].id
    /\ \A i, j, k \in 1..Len(added) :
          (added[i].batch = added[k].batch /\ added[j].batch # added[i].batch)
              => ~(added[i].id <= added[j].id /\ added[j].id <= added[k].id)

C7_Witness ==
    /\ ev.op = "add" /\ ev.kind = "ok" /\ Len(ev.tasks) = 2
    /\ \E w \in Workers :
          /\ tx[w].op = "add"
          /\ pc[w] \in {"retrieve", "lock"}
    /\ \E i \in 1..Len(added) : added[i].batch # ev.tasks[1].batch

\* C8: addTasks with no contents returns an empty list and no error, stores
\* nothing, consumes no identity, and leaves the next getTask result as it was.
C8_EmptyAddChangesNothing ==
    [][(ev'.op = "add" /\ ev'.arg = <<>>)
          => /\ ev'.kind = "ok" /\ ev'.err = "" /\ ev'.tasks = <<>>
             /\ StorageUnchanged
             /\ added' = added
             /\ \A s \in Scopes : OldestTask(tasks', s) = OldestTask(tasks, s)]_vars

C8_Witness ==
    /\ ev.op = "add" /\ ev.arg = <<>> /\ ev.kind = "ok"
    /\ Stored # {}

\* what read(p) returns in the present state
ReadResult(p) == IF backend = "sqlite" THEN SqliteRead(knowledge, p) ELSE FileRead(files, p)

ListResult == IF backend = "sqlite" THEN SqliteList(knowledge) ELSE FileList(files)

\* C9: once write(p, c) has returned ok, read(p) returns exactly c, whatever was
\* stored at p before (nothing, other content, or a directory entry).
C9_RoundTrip ==
    (kv.op = "write" /\ kv.kind = "ok")
        => (ReadResult(kv.path).kind = "ok" /\ ReadResult(kv.path).value = kv.content)

\* C10: when files are stored below a, delete(a) returns ok, and afterwards no
\* path below a can be read and neither a nor a path below it is listed; in
\* both backends.
C10_CascadeDelete ==
    [][(kv'.op = "delete" /\ \E q \in KPaths : Under(kv'.path, q) /\ ReadResult(q).kind = "ok")
          => /\ kv'.kind = "ok"
             /\ \A q \in KPaths : Under(kv'.path, q) => ReadResult(q)'.kind = "error"
             /\ \A n \in ListResult' : ~(n.path = kv'.path \/ Under(kv'.path, n.path))]_vars

\* the entries of the store
Entries == IF backend = "sqlite" THEN knowledge ELSE files

\* the path a call addresses: the file backend appends .md
Addressed(p) == IF backend = "sqlite" THEN p ELSE NormalizePath(p)

\* p is stored as a file
IsFile(p) == \E e \in RowAt(Entries, Addressed(p)) : ~e.is_directory

\* nothing is stored at p, under the name given or the name addressed
Absent(p) == RowAt(Entries, p) = {} /\ RowAt(Entries, Addressed(p)) = {}

\* C11: read(p) returns content only when p is stored as a file; read of a
\* path that is absent or a directory, and delete of an absent path, return
\* NotFound and leave all paths, flags and contents as they were.
C11_NotFoundLeavesStore ==
    [][/\ (kv'.op = "read" /\ kv'.kind = "ok") => IsFile(kv'.path)
       /\ (kv'.op = "read" /\ ~IsFile(kv'.path))
             => (kv'.kind = "error" /\ kv'.err = "not found")
       /\ (kv'.op = "delete" /\ Absent(kv'.path))
             => (kv'.kind = "error" /\ kv'.err = "not found")
       /\ (kv'.op = "read" \/ (kv'.op = "delete" /\ Absent(kv'.path)))
             => (knowledge' = knowledge /\ files' = files)]_vars

\* the ids of the stored templates
Ids(ts) == {t.id : t \in ts}

\* what create must refuse
Invalid(t) ==
    \/ t.name = ""
    \/ t.description = ""
    \/ t.tasks = <<>>
    \/ \E n \in DOMAIN t.parameters : t.parameters[n].type = ""
    \/ \E n \in DOMAIN t.parameters :
           t.parameters[n].type = "enum" /\ t.parameters[n].values = {}

\* C12: create of a template with an empty Name, Description or Tasks, with a
\* parameter of empty Type or with an enum parameter without Values returns a
\* validation error, and the template store is left as it was.
C12_InvalidCreateRejected ==
    [][(tv'.op = "create" /\ Invalid(tv'.template))
          => (tv'.kind = "error" /\ tv'.err = "validation" /\ templates' = templates)]_vars

\* an enum parameter without values is refused while a template is stored
C12_Witness ==
    /\ tv.op = "create" /\ tv.kind = "error" /\ tv.err = "validation"
    /\ tv.template.name # "" /\ tv.template.description # "" /\ tv.template.tasks # <<>>
    /\ Y \in DOMAIN tv.template.parameters
    /\ tv.template.parameters[Y].type = "enum" /\ tv.template.parameters[Y].values = {}
    /\ templates # {}

\* C13: instantiating "Create ${x} with ${y}" with a value for x from the caller
\* and only a declared default for y queues "Create <value> with <default>".
C13_DefaultsSubstituted ==
    (/\ tv.op = "instantiate" /\ tv.kind = "ok"
     /\ tv.template.tasks = <<CreateXWithY>>
     /\ X \in DOMAIN tv.parameters /\ Y \notin DOMAIN tv.parameters
     /\ Y \in DOMAIN tv.template.parameters /\ tv.template.parameters[Y].default # <<>>)
        => tv.tasks = << <<"Create ">> \o tv.parameters[X] \o <<" with ">>
                          \o tv.template.parameters[Y].default >>

\* a required parameter without a non-empty value from the caller and without
\* a declared default
MissingRequired(t, parameters) ==
    \E n \in DOMAIN t.parameters :
        /\ t.parameters[n].required
        /\ (n \notin DOMAIN parameters \/ parameters[n] = <<>>)
        /\ t.parameters[n].default = <<>>

\* C14: instantiate of a stored template with a required parameter that has no
\* non-empty value and no default returns the missing-parameter error in its
\* first step, before anything is resolved, and no task is added to a queue.
C14_MissingRequiredRejected ==
    [][(/\ tv'.op = "instantiate" /\ Exists(tv'.id)
        /\ MissingRequired(TheTemplate(tv'.id), tv'.parameters))
          => (/\ tv'.kind = "error" /\ tv'.err = "required parameter is missing"
              /\ \A w \in Workers : tpc[w] = "idle" /\ ttx'[w].resolved = <<>>
              /\ tasks' = tasks /\ fileTasks' = fileTasks /\ added' = added
              /\ templates' = templates)]_vars

\* x is required, has no default, and the caller gave the empty string
C14_Witness ==
    /\ tv.op = "instantiate" /\ tv.kind = "error" /\ tv.err = "required parameter is missing"
    /\ X \in DOMAIN tv.parameters /\ tv.parameters[X] = <<>>
    /\ tv.template.parameters[X].required /\ tv.template.parameters[X].default = <<>>
    /\ added = <<>>

C16_DeletedStaysNotFound ==
    [][/\ (tv'.op = "delete" /\ tv'.kind = "ok") => tv'.id \notin Ids(templates')
       /\ (/\ tv'.op \in {"get", "instantiate", "update", "delete"}
           /\ tv'.id # <<>> /\ ~Exists(tv'.id))
             => (/\ tv'.kind = "error" /\ tv'.err = "template not found"
                 /\ templates' = templates)
       /\ Ids(templates') \subseteq
              Ids(templates) \cup (IF tv'.op = "create" /\ tv'.kind = "ok" THEN {tv'.id} ELSE {})]_vars

\* every template that was created is deleted, and an update finds nothing
C16_Witness ==
    /\ tv.op = "update" /\ tv.id = T1 /\ tv.kind = "error" /\ tv.err = "template not found"
    /\ tclock > 0 /\ templates = {}

\* C17: update never brings a template into existence: an update of an id that
\* is not stored returns "template not found", and after any step of an update
\* the stored ids are among those stored before it.
C17_UpdateNeverCreates ==
    [][/\ (tv'.op = "update" /\ tv'.id # <<>> /\ ~Exists(tv'.id) /\ tv'.kind = "error")
             => (tv'.err = "template not found" /\ templates' = templates)
       /\ (tv'.op = "update") => Ids(templates') \subseteq Ids(templates)]_vars

\* C18: a create of an id that is stored returns the conflict error and leaves
\* the store alone, so of the creates of one id at most one returns ok.
C18_CreateConflict ==
    [][(tv'.op = "create" /\ Exists(tv'.id))
          => (/\ tv'.kind = "error" /\ tv'.err = "already exists"
              /\ templates' = templates)]_vars

\* C24: a task that getTask delivers has the smallest identity of the tasks
\* queued in its scope when it is taken, whether the creation times of the
\* queued tasks are equal or differ.
C24_SmallestIdentityFirst ==
    [][(ev'.op = "get" /\ ev'.kind = "ok")
          => \A r \in Queued(ev'.scope) : ev'.tasks[1].id <= r.id]_vars

\* the delivered task left behind a task of its own creation time and a task
\* of a later one
C24_Witness ==
    /\ ev.op = "get" /\ ev.kind = "ok"
    /\ \E r, q \in Queued(ev.scope) :
           /\ r.created = ev.tasks[1].created
           /\ q.created > ev.tasks[1].created

EmptyOutcome(e, s) ==
    /\ e.op = "get" /\ e.scope = s
    /\ \/ e.kind = "empty"
       \/ e.kind = "error" /\ e.err = "no pending tasks"

\* C26: with no further addTasks, repeated getTask calls deliver every queued
\* task, and the empty-queue outcome of a scope is reached, after as many
\* successful deliveries as tasks were added to the scope.
C26_DrainTerminates ==
    /\ \A u \in 1..MaxTasks : (u \in Uids(Stored)) ~> (u \in Uids(DeliveredTasks))
    /\ \A s \in AllScopes : (Queued(s) # {}) ~> EmptyOutcome(ev, s)
    /\ [][\A s \in AllScopes :
              EmptyOutcome(ev', s) => Len(delivered'[s]) = Len(OfScope(added', s))]_vars

\* the empty-queue outcome after two deliveries from the scope
C26_Witness ==
    /\ EmptyOutcome(ev, ev.scope)
    /\ Len(delivered[ev.scope]) >= 2
    /\ Drained(ev.scope)

\* C27: for every stored path, every proper ancestor path is stored as a
\* directory entry.
C27_AncestorsAreDirectories ==
    \A e \in Entries : \A k \in 1..(Len(e.path) - 1) :
        \E d \in Entries : d.path = SubSeq(e.path, 1, k) /\ d.is_directory

\* a key of the tree below which the tree holds another key
NonLeaf(tree, n) == \E m \in tree : Under(n.path, m.path)

\* C28: in the tree that list returns, a key with keys below it maps to a
\* non-nil tree and a key without maps to nil; a stored file is a key mapped
\* to nil and a stored directory a key mapped to a non-nil tree.
C28_TreeShape ==
    kv.op = "list" =>
        /\ \A n \in kv.list : n.dir <=> NonLeaf(kv.list, n)
        /\ \A e \in Entries :
               \E n \in kv.list : n.path = e.path /\ (n.dir <=> e.is_directory)

\* C29: building the tree is idempotent: a directory marker for a path whose
\* subtree is populated leaves the tree as it is, and inserting the same
\* entries a second time gives the tree that inserting them once gives.
C29_TreeBuildIdempotent ==
    built.done =>
        /\ built.twice = built.once
        /\ \A n \in built.once :
               NonLeaf(built.once, n)
                   => insertPathIntoStructure(built.once, n.path, TRUE) = built.once

\* a directory marker that came after an entry below it, in a tree of two levels
C29_Witness ==
    /\ built.done
    /\ \E i, j \in 1..Len(built.entries) :
           /\ i < j
           /\ built.entries[j].is_directory
           /\ Under(built.entries[j].path, built.entries[i].path)
    /\ \E n \in built.once : NonLeaf(built.once, n)

\* C30: a path without the ".md" suffix and the path with it address the same
\* document: a read that follows a successful write, by either spelling of
\* the written path, returns the written content.
C30_SuffixAddressesSameDocument ==
    [][(/\ kv.op = "write" /\ kv.kind = "ok"
        /\ kv'.op = "read"
        /\ NormalizePath(kv'.path) = NormalizePath(kv.path))
          => (kv'.kind = "ok" /\ kv'.value = kv.content)]_vars

\* C31: in the file backend a successful delete removes the file and, besides
\* it, only directories that are ancestors of the file strictly below the base
\* directory and empty afterwards, as one chain upward from the file; no other
\* entry goes or changes.
C31_DeletePrunesOnlyEmptyAncestors ==
    [][(backend = "file" /\ kv'.op = "delete" /\ kv'.kind = "ok")
          => LET p == FullPath(kv'.path)
                 removed == files \ files'
             IN  /\ files' \subseteq files
                 /\ \E e \in removed : e.path = p /\ ~e.is_directory
                 /\ \A e \in removed :
                        \/ e.path = p
                        \/ /\ e.is_directory
                           /\ Under(e.path, p)
                           /\ ~Outside(e.path)
                           /\ ~\E f \in files' : Under(e.path, f.path)
                           /\ \A k \in (Len(e.path) + 1)..(Len(p) - 1) :
                                  \E d \in removed : d.path = SubSeq(p, 1, k)]_vars

\* C32: a create of a valid template without a caller-supplied identity
\* succeeds, whatever templates of the same name are stored: the identity it
\* generates is not the identity of a stored template.
C32_GeneratedIdentityIsFresh ==
    [][(/\ tv'.op = "create"
        /\ tv'.template.id = <<>>
        /\ validateTemplate(tv'.template) = "")
          => (tv'.kind = "ok" /\ ~Exists(tv'.id))]_vars

\* InstantiateTemplate of the backend in use
InstantiateTemplate(t, parameters) ==
    IF backend = "sqlite" THEN SqliteInstantiateTemplate(t, parameters)
    ELSE FileInstantiateTemplate(t, parameters)

\* the declared non-empty defaults, overridden by the caller's values
Merged(t, parameters) ==
    [n \in DOMAIN parameters \cup {m \in DOMAIN t.parameters : t.parameters[m].default # <<>>} |->
        IF n \in DOMAIN parameters THEN parameters[n] ELSE t.parameters[n].default]

\* C33: the instance that InstantiateTemplate returns for parameters that pass
\* the handler's validation carries the declared defaults overridden by the
\* caller's values, and its task strings are substituted with that map.
C33_InstanceCarriesMergedParameters ==
    \A t \in templates, parameters \in CallerParameters :
        (/\ validateTemplateParameters(t, parameters) = ""
         /\ InstantiateTemplate(t, parameters).kind = "ok")
            => /\ InstantiateTemplate(t, parameters).parameters = Merged(t, parameters)
               /\ InstantiateTemplate(t, parameters).tasks
                      = ResolvedTasks(t, InstantiateTemplate(t, parameters).parameters)

\* the tasks that a step appended to the history
Appended == SubSeq(added', Len(added) + 1, Len(added'))

\* delivery order: creation time, then identity
Before(r, q) == r.created < q.created \/ (r.created = q.created /\ r.id < q.id)

PendingDirectories == UNION {kpc[w].made : w \in Workers}

\* C35: a Write of the SQLite backend is all-or-nothing: no list shows, and no
\* delete removes, a directory entry that a Write still in flight has
\* inserted, and a Write that returns an error leaves none of the directory
\* entries it inserted.
C35_WriteAllOrNothing ==
    [][/\ kv'.op = "list" => \A n \in kv'.list : n.path \notin PendingDirectories
       /\ (kv'.op = "delete" /\ kv'.kind = "ok") => kv'.path \notin PendingDirectories
       /\ (kv'.op = "write" /\ kv'.kind = "error")
             => \A w \in Workers :
                    (kpc[w].at = "write" /\ kpc'[w].at = "idle")
                        => \A d \in kpc[w].made : RowAt(knowledge', d) = {}]_vars

\* C36: addTasks returns an error only when none of the tasks of its batch was
\* stored: a call whose batch has been committed returns the created tasks.
C36_AddErrorMeansNothingStored ==
    [][(ev'.op = "add" /\ ev'.kind = "error")
          => \A w \in Workers :
                 (pc[w] # "idle" /\ pc'[w] = "idle" /\ tx[w].op = "add")
                     => \A i \in 1..Len(tx[w].ins) : tx[w].ins[i].uid \notin 1..Len(added)]_vars

\* C37: a successful delete of the SQLite backend removes the path and the
\* stored paths that start with the path followed by "/", and leaves every
\* other row as it is.
C37_DeleteRemovesOnlySubtree ==
    [][(backend = "sqlite" /\ kv'.op = "delete" /\ kv'.kind = "ok")
          => knowledge' = {r \in knowledge :
                              ~(r.path = kv'.path \/ Under(kv'.path, r.path))}]_vars

\* a task string that still holds the placeholder of name
Unresolved(task, name) ==
    \E i \in 1..Len(task) :
        i + Len(Placeholder(name)) - 1 <= Len(task)
            /\ SubSeq(task, i, i + Len(Placeholder(name)) - 1) = Placeholder(name)

\* C39: an instantiate call resolves its tasks from the template version its
\* parameters were validated against, whatever other calls update or delete
\* meanwhile, and no task it enqueues holds an unresolved placeholder of a
\* parameter that the instantiated version marks as required.
C39_InstantiateUsesValidatedVersion ==
    [][/\ \A w \in Workers :
              (tpc[w] = "instantiate" /\ tpc'[w] = "enqueue")
                  => ttx'[w].template = ttx[w].template
       /\ (tv' # tv /\ tv'.op = "instantiate" /\ tv'.kind = "ok")
              => \A n \in DOMAIN tv'.template.parameters :
                     tv'.template.parameters[n].required
                         => \A i \in 1..Len(tv'.tasks) : ~Unresolved(tv'.tasks[i], n)]_vars

\* C38: in the resolved parameters of a successful instantiation, the value of
\* every enum parameter, from the caller or from the declared default, is one
\* of the values the parameter allows.
C38_EnumValuesAllowed ==
    (tv.op = "instantiate" /\ tv.kind = "ok")
        => LET resolved == InstantiateTemplate(tv.template, tv.parameters).parameters
           IN  \A n \in DOMAIN resolved \cap DOMAIN tv.template.parameters :
                   tv.template.parameters[n].type = "enum"
                       => resolved[n] \in tv.template.parameters[n].values

\* the identity the next created task gets: NextID of tasks.yaml, or one more
\* than the seq of sqlite_sequence
NextIdentity == IF backend = "file" THEN fileNextID ELSE seq + 1

\* C23: a restart leaves the queued tasks as they were, with their order,
\* identities and contents, and the store that is opened assigns identities
\* greater than every identity assigned before the restart.
C23_RestartConsistent ==
    [][(epoch' = epoch + 1)
          => (/\ tasks' = tasks /\ fileTasks' = fileTasks
              /\ \A i \in 1..Len(added) : added[i].id < NextIdentity')]_vars

\* C22: the knowledge store stays below its base directory: no file or
\* directory outside it is created or left changed by a write or a delete,
\* and no read returns the content of a file outside it.
C22_NeverEscapesRoot ==
    /\ \A e \in files : ~Outside(e.path)
    /\ (kv.op = "read" /\ kv.kind = "ok" /\ backend = "file") => ~Outside(FullPath(kv.path))

\* C21: for every stored template and every parameter map of a caller, the
\* file backend and the SQLite backend both fail or return the same resolved
\* parameters and the same task strings.
C21_BackendsAgree ==
    \A t \in templates, parameters \in CallerParameters :
        FileInstantiateTemplate(t, parameters) = SqliteInstantiateTemplate(t, parameters)

\* C20: when AddTasks or GetTask of the SQLite backend returns an error, the
\* stored rows are those stored before, and the locks of the call are gone:
\* only calls still running hold a lock, no transaction is left open.
C20_FailureRollsBack ==
    [][(ev'.op \in {"add", "get"} /\ ev'.kind = "error")
          => (/\ tasks' = tasks /\ seq' = seq
              /\ (shared' \cup reserved') \subseteq {w \in Workers : pc'[w] # "idle"})]_vars

\* what the substitution of a task string built from pieces must give: each
\* piece on its own, a placeholder by its value or, without one, as it stands
RECURSIVE Substituted(_, _)
Substituted(pieces, parameters) ==
    IF pieces = <<>> THEN <<>>
    ELSE LET h == Head(pieces)
         IN  (IF h.kind = "lit" THEN h.text
              ELSE IF h.name \in DOMAIN parameters THEN parameters[h.name]
              ELSE Placeholder(h.name)) \o Substituted(Tail(pieces), parameters)

\* C19: substitution replaces every ${name} that has a value by that value,
\* leaves every ${name} without a value as it stands, and is single-pass: a
\* value that is itself a placeholder is put in and not substituted again.
C19_SinglePassSubstitution ==
    subst.result = Substituted(subst.pieces, subst.parameters)

\* "${x}${x}${y}" with x -> "${y}" and y -> "v" gives "${y}${y}v"
C19_Witness ==
    /\ subst.pieces = <<Ref(<<"x">>), Ref(<<"x">>), Ref(<<"y">>)>>
    /\ DOMAIN subst.parameters = {<<"x">>, <<"y">>}
    /\ subst.parameters[<<"x">>] = Placeholder(<<"y">>)
    /\ subst.parameters[<<"y">>] = <<"v">>
    /\ subst.result = Placeholder(<<"y">>) \o Placeholder(<<"y">>) \o <<"v">>

====
